---- MODULE Spec2Model ----
(***************************************************************************)
(* Model of the Lanzat county-vulnerability pipeline:                      *)
(*   scripts/process_data.py                 (base version)                *)
(*   scripts/calculate_real_hurricane_risk.py (NOAA-enhanced version)      *)
(*   scripts/enrich_with_statista.py          (Statista-enhanced version)  *)
(*   scripts/fetch_active_hurricanes.py       (real-time threat classifier)*)
(*   app/main.py                              (read-only serving layer)    *)
(*                                                                         *)
(* Floating point numbers are fixed-point integers in units of 1/One       *)
(* (truncating division); NaN is a distinguished value that every          *)
(* arithmetic operator propagates and every comparison rejects, as IEEE    *)
(* and pandas do.  Distances are kilometres of arc along one meridian, on  *)
(* which the haversine formula reduces to R * |dlat|.                      *)
(***************************************************************************)
EXTENDS Integers, Sequences, FiniteSets, TLC

VARIABLES raw,            \* data/raw: the input files of the scripts
          files,          \* data/processed: the published artifacts
          pc,             \* position of the script that runs
          script,         \* the script that runs, or ran last
          pending,        \* the writes the running script still has to do
          active_storms,  \* the classifier's in-memory storm list
          county_threats, \* the classifier's in-memory threat records
          feed_failed,    \* whether the classifier's fetch raised
          before,         \* data/processed when the run started
          latest,         \* the scoring version that completed last
          runs,           \* number of script runs still to start
          served,         \* what the serving layer returned last
          integ,          \* integrate_data.py: its position, tables and merged frame
          calc,           \* the last call of a scoring helper: function, arguments, result
          writers         \* the classifier processes started side by side

vars == <<raw, files, pc, script, pending, active_storms, county_threats,
          feed_failed, before, latest, runs, served, integ, calc, writers>>

\* integrate_data.py is not running, no helper has been called
NoIntegration ==
    [pc |-> "off", counties |-> <<>>, gdp |-> <<>>, svi |-> <<>>, nri |-> <<>>,
     vulnerability_map |-> <<>>]

NoCalc == [fn |-> "none", args |-> <<>>, out |-> <<>>]

\* the processes that can run the classifier side by side: the subprocesses
\* of two POST /api/realtime/refresh requests and a run from the shell
Procs == {"refresh_1", "refresh_2", "manual"}

NoWriters == [p \in Procs |-> [pc |-> "idle", pending |-> <<>>, raced |-> FALSE]]

----------------------------------------------------------------------------
(* Bounds *)

\* script runs started in one behaviour of Spec, SpecChain, SpecServe
MaxRuns      == 2
MaxChain     == 4
MaxServeRuns == 3
\* storms in one answer of the feed, threat records in one list
MaxStorms    == 2
MaxThreats   == 12

----------------------------------------------------------------------------
(* Numbers *)

One == 10000
NaN == -2000000000
Inf == 2000000000

IsNum(x) == x # NaN

Add(a, b) == IF a = NaN \/ b = NaN THEN NaN ELSE a + b

Sub(a, b) == IF a = NaN \/ b = NaN THEN NaN ELSE a - b

\* w is a weight in hundredths: Times(40, x) is 0.40 * x
Times(w, x) == IF x = NaN THEN NaN ELSE (w * x) \div 100

\* a / b as numpy divides floats: 0/0 is NaN (b = 0 only happens with a = 0 here)
Ratio(a, b) ==
    IF a = NaN \/ b = NaN THEN NaN
    ELSE IF b = 0 THEN NaN
    ELSE (a * One) \div b

\* Series.clip(0, 1): NaN stays NaN
Clip01(x) ==
    IF x = NaN THEN NaN
    ELSE IF x < 0 THEN 0
    ELSE IF x > One THEN One
    ELSE x

\* x >= t on floats: False when x is NaN
Ge(x, t) == x # NaN /\ x >= t

\* Series.min() / Series.max(): NaN entries are skipped, NaN when none is left
SeriesMin(f) ==
    LET S == {f[k] : k \in DOMAIN f} \ {NaN}
    IN  IF S = {} THEN NaN ELSE CHOOSE m \in S : \A x \in S : m <= x

SeriesMax(f) ==
    LET S == {f[k] : k \in DOMAIN f} \ {NaN}
    IN  IF S = {} THEN NaN ELSE CHOOSE m \in S : \A x \in S : m >= x

----------------------------------------------------------------------------
(* Counties: the rows of the base layer, in file order *)

CountyOrder == <<"Bay", "Polk">>

Counties == {CountyOrder[i] : i \in 1..Len(CountyOrder)}

\* lengths are in units of 0.01 km
KM == 100

\* centroid of each county polygon: arc length along the meridian
Centroid == [c \in Counties |-> IF c = "Bay" THEN 0 ELSE 300 * KM]

----------------------------------------------------------------------------
(* Ordering helpers *)

TopN == 10

RECURSIVE InsertDesc(_, _, _)
\* insert index i into idx (indices of keys, sorted by key descending) behind
\* every index whose key is not smaller: list.sort(reverse=True) is stable
InsertDesc(idx, i, keys) ==
    IF idx = <<>> THEN <<i>>
    ELSE IF keys[Head(idx)] < keys[i] THEN <<i>> \o idx
    ELSE <<Head(idx)>> \o InsertDesc(Tail(idx), i, keys)

RECURSIVE SortedIdx(_, _)
\* the indices 1..n of keys ordered by key descending, ties in original order
SortedIdx(keys, n) ==
    IF n = 0 THEN <<>> ELSE InsertDesc(SortedIdx(keys, n - 1), n, keys)

FirstN(s, n) == IF Len(s) <= n THEN s ELSE SubSeq(s, 1, n)

\* median of the values of f over the keys in D; NaN when D is empty
Median(f, D) ==
    IF D = {} THEN NaN
    ELSE LET ks   == CHOOSE s \in [1..Cardinality(D) -> D] :
                        \A i, j \in 1..Cardinality(D) : i # j => s[i] # s[j]
             keys == [i \in 1..Cardinality(D) |-> f[ks[i]]]
             ord  == SortedIdx(keys, Cardinality(D))
             n    == Cardinality(D)
         IN  IF n % 2 = 1 THEN keys[ord[(n + 1) \div 2]]
             ELSE (keys[ord[n \div 2]] + keys[ord[n \div 2 + 1]]) \div 2

----------------------------------------------------------------------------
(* scripts/process_data.py: the base version *)

\* the counties calculate_hurricane_risk lists as coastal
coastal_counties == {"Bay", "Lee"}

\* what one vectorised np.random call can return: two sample vectors over the
\* counties, alternating between two points of the sampled interval
Samples(a, b) ==
    LET idx(c) == CHOOSE i \in 1..Len(CountyOrder) : CountyOrder[i] = c
    IN  {[c \in Counties |-> IF idx(c) % 2 = 1 THEN a ELSE b],
         [c \in Counties |-> IF idx(c) % 2 = 1 THEN b ELSE a]}

\* np.random.uniform(500, 180000), randint(5000, 2800000), uniform(0.2, 0.8)
GdpDraw == Samples(500, 1000)
PopDraw == Samples(10000, 1000000)
SviDraw == Samples(2000, 8000)

\* the results calculate_hurricane_risk can return: uniform(0.6, 0.9) for a
\* coastal county and uniform(0.2, 0.5) for an inland one without a track
\* file, uniform(0.3, 0.9) for every county with one
calculate_hurricane_risk(hurricanes_present) ==
    IF ~hurricanes_present
    THEN {[c \in Counties |-> IF c \in coastal_counties THEN 6000 ELSE 2000],
          [c \in Counties |-> IF c \in coastal_counties THEN 9000 ELSE 5000]}
    ELSE Samples(3000, 9000)

\* the inverse flag ignored
normalize_score_direct(values, inverse) ==
    LET min_val == SeriesMin(values)
        max_val == SeriesMax(values)
    IN  IF max_val # NaN /\ max_val = min_val
        THEN [k \in DOMAIN values |-> 5000]
        ELSE [k \in DOMAIN values |->
                Ratio(Sub(values[k], min_val), Sub(max_val, min_val))]

\* no test for max_val == min_val
normalize_score_unguarded(values, inverse) ==
    LET min_val == SeriesMin(values)
        max_val == SeriesMax(values)
    IN  [k \in DOMAIN values |->
           LET normalized == Ratio(Sub(values[k], min_val), Sub(max_val, min_val))
           IN  IF inverse THEN Sub(One, normalized) ELSE normalized]

normalize_score(values, inverse) ==
    LET min_val == SeriesMin(values)
        max_val == SeriesMax(values)
    IN  IF max_val # NaN /\ max_val = min_val
        THEN [k \in DOMAIN values |-> 5000]
        ELSE [k \in DOMAIN values |->
                LET normalized == Ratio(Sub(values[k], min_val), Sub(max_val, min_val))
                IN  IF inverse THEN Sub(One, normalized) ELSE normalized]

categorize_risk(score) ==
    IF Ge(score, 8000) THEN "Critical"
    ELSE IF Ge(score, 6000) THEN "High"
    ELSE IF Ge(score, 4000) THEN "Moderate"
    ELSE IF Ge(score, 2000) THEN "Low"
    ELSE "Very Low"

\* hurricane and social weighted alike
BaseFormula_equal(h, s, e) ==
    Add(Add(Times(35, h), Times(35, s)), Times(30, e))

\* 0.40 * hurricane_risk + 0.30 * social_vulnerability + 0.30 * economic_vulnerability
BaseFormula(h, s, e) ==
    Add(Add(Times(40, h), Times(30, s)), Times(30, e))

\* gdp_df, svi_df: the loaded tables (empty when the file is missing);
\* gdp_rand, pop_rand, svi_rand: what the np.random calls return when used
calculate_vulnerability_scores(gdp_df, svi_df, pop_col, hurricane_risk, gdp_rand, pop_rand, svi_rand) ==
    LET matched == DOMAIN gdp_df \cap Counties
        gdp == IF DOMAIN gdp_df # {}
               THEN [c \in Counties |->
                        IF c \in matched THEN gdp_df[c] ELSE Median(gdp_df, matched)]
               ELSE gdp_rand
        population == IF DOMAIN pop_col # {} THEN pop_col ELSE pop_rand
        social == IF DOMAIN svi_df # {}
                  THEN [c \in Counties |->
                          IF c \in DOMAIN svi_df /\ svi_df[c] # NaN
                          THEN svi_df[c] ELSE 5000]
                  ELSE svi_rand
        gdp_per_capita == [c \in Counties |->
                             IF gdp[c] = NaN THEN NaN
                             ELSE (gdp[c] * 1000000) \div population[c]]
        economic == normalize_score(gdp_per_capita, TRUE)
    IN  [c \in Counties |->
           LET score == Clip01(BaseFormula(hurricane_risk[c], social[c], economic[c]))
           IN  [hurricane_risk         |-> hurricane_risk[c],
                social_vulnerability   |-> social[c],
                economic_vulnerability |-> economic[c],
                vulnerability_score    |-> score,
                risk_category          |-> categorize_risk(score)]]

\* value_counts() of a category column
CategoryCounts(gdf, col) ==
    [k \in {gdf[c][col] : c \in Counties} |->
        Cardinality({c \in Counties : gdf[c][col] = k})]

\* gdf.nlargest(10, col)[['NAME', col]]: names by col descending, NaN last
nlargest(gdf, col) ==
    LET n    == Len(CountyOrder)
        keys == [i \in 1..n |-> gdf[CountyOrder[i]][col]]
        ord  == FirstN(SortedIdx(keys, n), TopN)
    IN  [i \in 1..Len(ord) |-> [NAME |-> CountyOrder[ord[i]], value |-> keys[ord[i]]]]

ColumnOf(gdf, col) == [c \in Counties |-> gdf[c][col]]

\* the summary without its generated_at timestamp and the mean, median and
\* std of the score
generate_summary_stats(gdf) ==
    [data_sources         |-> [counties             |-> "US Census Bureau TIGER/Line",
                               hurricanes           |-> "NOAA IBTrACS",
                               gdp                  |-> "Bureau of Economic Analysis",
                               social_vulnerability |-> "CDC Social Vulnerability Index"],
     total_counties       |-> Cardinality(Counties),
     min                  |-> SeriesMin(ColumnOf(gdf, "vulnerability_score")),
     max                  |-> SeriesMax(ColumnOf(gdf, "vulnerability_score")),
     risk_category_counts |-> CategoryCounts(gdf, "risk_category"),
     top_10_vulnerable    |-> nlargest(gdf, "vulnerability_score")]

----------------------------------------------------------------------------
(* scripts/calculate_real_hurricane_risk.py: the NOAA-enhanced version *)

\* the average-wind component normalized over the winds of the run
noaa_calculate_hurricane_risk_relative(frequency_df) ==
    LET count == [k \in DOMAIN frequency_df |-> frequency_df[k].storm_count]
        wind  == [k \in DOMAIN frequency_df |-> frequency_df[k].avg_wind_speed]
        lo    == SeriesMin(count)
        hi    == SeriesMax(count)
    IN  [k \in DOMAIN frequency_df |->
           LET frequency_score     == Ratio(Sub(count[k], lo), Sub(hi, lo))
               avg_intensity_score ==
                   Clip01(Ratio(wind[k] - SeriesMin(wind),
                                SeriesMax(wind) - SeriesMin(wind)))
               max_intensity_score ==
                   Clip01(Ratio(frequency_df[k].max_wind_speed - 34, 160 - 34))
           IN  [hurricane_risk_noaa |->
                    Clip01(Add(Add(Times(50, frequency_score),
                                   Times(30, avg_intensity_score)),
                               Times(20, max_intensity_score))),
                storm_count    |-> frequency_df[k].storm_count,
                avg_wind_speed |-> frequency_df[k].avg_wind_speed,
                max_wind_speed |-> frequency_df[k].max_wind_speed]]

\* frequency_df: County -> [storm_count, avg_wind_speed, max_wind_speed]
noaa_calculate_hurricane_risk(frequency_df) ==
    LET count == [k \in DOMAIN frequency_df |-> frequency_df[k].storm_count]
        lo    == SeriesMin(count)
        hi    == SeriesMax(count)
    IN  [k \in DOMAIN frequency_df |->
           LET frequency_score     == Ratio(Sub(count[k], lo), Sub(hi, lo))
               avg_intensity_score ==
                   Clip01(Ratio(frequency_df[k].avg_wind_speed - 34, 137 - 34))
               max_intensity_score ==
                   Clip01(Ratio(frequency_df[k].max_wind_speed - 34, 160 - 34))
           IN  [hurricane_risk_noaa |->
                    Clip01(Add(Add(Times(50, frequency_score),
                                   Times(30, avg_intensity_score)),
                               Times(20, max_intensity_score))),
                storm_count    |-> frequency_df[k].storm_count,
                avg_wind_speed |-> frequency_df[k].avg_wind_speed,
                max_wind_speed |-> frequency_df[k].max_wind_speed]]

noaa_categorize_risk(score) ==
    IF Ge(score, 8000) THEN "Critical"
    ELSE IF Ge(score, 6000) THEN "High"
    ELSE IF Ge(score, 4000) THEN "Moderate"
    ELSE IF Ge(score, 2000) THEN "Low"
    ELSE "Very Low"

\* the recomputation of the score with the new hurricane risk:
\* 0.40 * hurricane_risk + 0.30 * social_vulnerability + 0.30 * economic_vulnerability
NoaaFormula(h, s, e) ==
    Add(Add(Times(40, h), Times(30, s)), Times(30, e))

\* gdf: the layer read from counties.geojson
update_vulnerability_with_noaa_risk(risk_df, gdf) ==
    [c \in Counties |->
       LET old    == gdf[c].hurricane_risk
           mapped == IF c \in DOMAIN risk_df
                     THEN risk_df[c].hurricane_risk_noaa ELSE NaN
           risk   == IF mapped = NaN THEN old ELSE mapped
           score  == Clip01(NoaaFormula(risk, gdf[c].social_vulnerability,
                                        gdf[c].economic_vulnerability))
           meta(col) == IF c \in DOMAIN risk_df THEN risk_df[c][col] ELSE NaN
       IN  [hurricane_risk_old  |-> old,
            hurricane_risk      |-> risk,
            vulnerability_score |-> score,
            risk_category       |-> noaa_categorize_risk(score),
            storm_count         |-> meta("storm_count"),
            avg_wind_speed      |-> meta("avg_wind_speed"),
            max_wind_speed      |-> meta("max_wind_speed")] @@ gdf[c]]

\* the column not dropped
DropColumn_keep(gdf, col) == gdf

\* gdf.drop(columns=[col])
DropColumn(gdf, col) ==
    [c \in Counties |-> [k \in (DOMAIN gdf[c]) \ {col} |-> gdf[c][k]]]

\* the summary save_updated_data builds from the layer it saved
noaa_summary_stats(gdf) ==
    [data_source          |-> "NOAA IBTrACS",
     total_counties       |-> Cardinality(Counties),
     hurricane_risk_min   |-> SeriesMin(ColumnOf(gdf, "hurricane_risk")),
     hurricane_risk_max   |-> SeriesMax(ColumnOf(gdf, "hurricane_risk")),
     min                  |-> SeriesMin(ColumnOf(gdf, "vulnerability_score")),
     max                  |-> SeriesMax(ColumnOf(gdf, "vulnerability_score")),
     risk_category_counts |-> CategoryCounts(gdf, "risk_category"),
     top_10_vulnerable    |-> nlargest(gdf, "vulnerability_score")]

----------------------------------------------------------------------------
(* scripts/enrich_with_statista.py: the Statista-enhanced version *)

\* rural_map; a status it does not list maps to NaN
rural_map(status) ==
    CASE status = "rural"         -> 10000
      [] status = "rural_coastal" -> 9000
      [] status = "suburban"      -> 4000
      [] status = "urban"         -> 2000
      [] OTHER                    -> NaN

\* the rural factor weighted 0.20
EnhancedFormula_heavy(h, s, e, p, r) ==
    Add(Add(Add(Add(Times(25, h), Times(20, s)), Times(20, e)), Times(20, p)),
        Times(20, r))

\* 0.25 hurricane + 0.20 social + 0.20 economic + 0.20 property + 0.15 rural
EnhancedFormula(h, s, e, p, r) ==
    Add(Add(Add(Add(Times(25, h), Times(20, s)), Times(20, e)), Times(20, p)),
        Times(15, r))

\* the thresholds taken strictly
categorize_enhanced_risk_strict(score) ==
    IF score # NaN /\ score > 8000 THEN "Critical"
    ELSE IF score # NaN /\ score > 6000 THEN "High"
    ELSE IF score # NaN /\ score > 4000 THEN "Moderate"
    ELSE IF score # NaN /\ score > 2000 THEN "Low"
    ELSE "Very Low"

categorize_enhanced_risk(score) ==
    IF Ge(score, 8000) THEN "Critical"
    ELSE IF Ge(score, 6000) THEN "High"
    ELSE IF Ge(score, 4000) THEN "Moderate"
    ELSE IF Ge(score, 2000) THEN "Low"
    ELSE "Very Low"

\* statista_df: County -> [median_home_value (thousand $), rural_status]
calculate_enhanced_vulnerability(counties_gdf, statista_df) ==
    LET home == [c \in Counties |->
                   IF c \in DOMAIN statista_df
                   THEN statista_df[c].median_home_value ELSE 300]
        status == [c \in Counties |->
                   IF c \in DOMAIN statista_df
                   THEN statista_df[c].rural_status ELSE "suburban"]
        lo == SeriesMin(home)
        hi == SeriesMax(home)
    IN  [c \in Counties |->
           LET property_exposure == Ratio(Sub(home[c], lo), Sub(hi, lo))
               rural_factor      == rural_map(status[c])
               enhanced == Clip01(EnhancedFormula(
                               counties_gdf[c].hurricane_risk,
                               counties_gdf[c].social_vulnerability,
                               counties_gdf[c].economic_vulnerability,
                               property_exposure, rural_factor))
           IN  [median_home_value      |-> home[c],
                rural_status           |-> status[c],
                property_exposure      |-> property_exposure,
                rural_factor           |-> rural_factor,
                enhanced_vulnerability |-> enhanced,
                enhanced_risk_category |-> categorize_enhanced_risk(enhanced),
                critical_rural         |-> Ge(enhanced, 7000) /\
                                           status[c] \in {"rural", "rural_coastal"}]
               @@ counties_gdf[c]]

generate_enhanced_stats(gdf) ==
    [total_counties                |-> Cardinality(Counties),
     min                           |-> SeriesMin(ColumnOf(gdf, "enhanced_vulnerability")),
     max                           |-> SeriesMax(ColumnOf(gdf, "enhanced_vulnerability")),
     enhanced_risk_category_counts |-> CategoryCounts(gdf, "enhanced_risk_category"),
     critical_rural_zones_count    |-> Cardinality({c \in Counties : gdf[c].critical_rural}),
     top_10_vulnerable_enhanced    |-> nlargest(gdf, "enhanced_vulnerability")]

----------------------------------------------------------------------------
(* scripts/fetch_active_hurricanes.py: the real-time threat classifier *)

\* a latitude float() rejects (None, "25.4N")
Unparseable == NaN

\* JSON null
NoStorm    == "None"
NoDistance == -1

THREAT_THRESHOLDS ==
    [extreme |-> 100 * KM, high |-> 250 * KM, moderate |-> 500 * KM, low |-> 1000 * KM]

\* a position that does not convert taken for the county's own position
haversine_distance_here(lat1, lat2) ==
    IF lat1 = Unparseable \/ lat2 = Unparseable THEN 0
    ELSE IF lat1 >= lat2 THEN lat1 - lat2 ELSE lat2 - lat1

\* points on one meridian: a = sin^2(dlat/2), c = |dlat|, distance R * |dlat|
haversine_distance(lat1, lat2) ==
    IF lat1 = Unparseable \/ lat2 = Unparseable THEN Inf
    ELSE IF lat1 >= lat2 THEN lat1 - lat2 ELSE lat2 - lat1

categorize_storm(wind_speed_kt) ==
    IF wind_speed_kt < 34 THEN "Tropical Depression"
    ELSE IF wind_speed_kt < 64 THEN "Tropical Storm"
    ELSE IF wind_speed_kt < 83 THEN "Category 1 Hurricane"
    ELSE IF wind_speed_kt < 96 THEN "Category 2 Hurricane"
    ELSE IF wind_speed_kt < 113 THEN "Category 3 Hurricane"
    ELSE IF wind_speed_kt < 137 THEN "Category 4 Hurricane"
    ELSE "Category 5 Hurricane"

\* the storm_info fetch_active_storms builds from one entry of the feed
storm_info(storm) ==
    [name          |-> storm.name,
     latitude      |-> storm.latitude,
     wind_speed_kt |-> storm.windSpeed,
     category      |-> categorize_storm(storm.windSpeed)]

\* round(x, 1): to the nearest 0.1 km, a tie to the even neighbour
Round1(d) ==
    LET q == d \div 10
        r == d % 10
    IN  IF r < 5 THEN q * 10
        ELSE IF r > 5 THEN (q + 1) * 10
        ELSE IF q % 2 = 0 THEN q * 10 ELSE (q + 1) * 10

RECURSIVE NearestStorm_last(_, _, _)
\* a storm as near as the nearest so far replaces it
NearestStorm_last(storms, n, county_lat) ==
    IF n = 0 THEN [dist |-> Inf, idx |-> 0]
    ELSE LET prev     == NearestStorm_last(storms, n - 1, county_lat)
             distance == haversine_distance(county_lat, storms[n].latitude)
         IN  IF distance <= prev.dist /\ distance # Inf
             THEN [dist |-> distance, idx |-> n]
             ELSE prev

RECURSIVE NearestStorm(_, _, _)
\* the loop over active_storms[1..n]: [dist, idx] of the nearest storm so far,
\* idx = 0 while nearest_storm is None
NearestStorm(storms, n, county_lat) ==
    IF n = 0 THEN [dist |-> Inf, idx |-> 0]
    ELSE LET prev     == NearestStorm(storms, n - 1, county_lat)
             distance == haversine_distance(county_lat, storms[n].latitude)
         IN  IF distance < prev.dist
             THEN [dist |-> distance, idx |-> n]
             ELSE prev

\* the bands with their limits excluded
ThreatLevel_strict(has_nearest, min_distance) ==
    IF ~has_nearest THEN "none"
    ELSE IF min_distance < THREAT_THRESHOLDS.extreme THEN "extreme"
    ELSE IF min_distance < THREAT_THRESHOLDS.high THEN "high"
    ELSE IF min_distance < THREAT_THRESHOLDS.moderate THEN "moderate"
    ELSE IF min_distance < THREAT_THRESHOLDS.low THEN "low"
    ELSE "none"

ThreatLevel(has_nearest, min_distance) ==
    IF ~has_nearest THEN "none"
    ELSE IF min_distance <= THREAT_THRESHOLDS.extreme THEN "extreme"
    ELSE IF min_distance <= THREAT_THRESHOLDS.high THEN "high"
    ELSE IF min_distance <= THREAT_THRESHOLDS.moderate THEN "moderate"
    ELSE IF min_distance <= THREAT_THRESHOLDS.low THEN "low"
    ELSE "none"

\* county.get('enhanced_vulnerability', county.get('vulnerability_score', 0))
RowScore(row) ==
    IF "enhanced_vulnerability" \in DOMAIN row THEN row.enhanced_vulnerability
    ELSE IF "vulnerability_score" \in DOMAIN row THEN row.vulnerability_score
    ELSE 0

\* one record of calculate_county_threats
county_threat(county_name, county_lat, row, storms) ==
    LET near         == NearestStorm(storms, Len(storms), county_lat)
        threat_level == ThreatLevel(near.idx # 0, near.dist)
    IN  [NAME                      |-> county_name,
         current_threat_level      |-> threat_level,
         nearest_storm_distance_km |-> IF near.dist # Inf THEN Round1(near.dist)
                                       ELSE NoDistance,
         nearest_storm_name        |-> IF near.idx # 0 THEN storms[near.idx].name
                                       ELSE NoStorm,
         nearest_storm_category    |-> IF near.idx # 0 THEN storms[near.idx].category
                                       ELSE NoStorm,
         has_active_threat         |-> threat_level # "none",
         enhanced_vulnerability    |-> RowScore(row)]

\* counties_df: the rows of the csv the classifier read, in file order
calculate_county_threats(storms, counties_df) ==
    [i \in 1..Len(CountyOrder) |->
        county_threat(CountyOrder[i], Centroid[CountyOrder[i]],
                      counties_df[CountyOrder[i]], storms)]

ThreatLevels == {"extreme", "high", "moderate", "low", "none"}

\* critical_counties of generate_summary_stats, before the [:10] cut:
\* the extreme/high records with score >= 0.6, sort(reverse=True) by score
critical_counties(threats) ==
    LET critical == SelectSeq(threats,
                        LAMBDA c : c.current_threat_level \in {"extreme", "high"}
                                   /\ Ge(c.enhanced_vulnerability, 6000))
        keys     == [i \in 1..Len(critical) |-> critical[i].enhanced_vulnerability]
        ord      == SortedIdx(keys, Len(critical))
    IN  [i \in 1..Len(critical) |-> critical[ord[i]]]

\* counties_under_threat without the counties at level low
threat_summary_stats_severe(storms, threats) ==
    LET threat_counts ==
            [l \in ThreatLevels |->
                Cardinality({i \in 1..Len(threats) : threats[i].current_threat_level = l})]
    IN  [active_storms_count     |-> Len(storms),
         active_storms           |-> storms,
         threat_distribution     |-> threat_counts,
         counties_under_threat   |-> threat_counts["extreme"] + threat_counts["high"]
                                     + threat_counts["moderate"],
         critical_counties       |-> FirstN(critical_counties(threats), TopN),
         total_counties_analyzed |-> Len(threats)]

\* generate_summary_stats of the classifier
threat_summary_stats(storms, threats) ==
    LET threat_counts ==
            [l \in ThreatLevels |->
                Cardinality({i \in 1..Len(threats) : threats[i].current_threat_level = l})]
    IN  [active_storms_count     |-> Len(storms),
         active_storms           |-> storms,
         threat_distribution     |-> threat_counts,
         counties_under_threat   |-> threat_counts["extreme"] + threat_counts["high"]
                                     + threat_counts["moderate"] + threat_counts["low"],
         critical_counties       |-> FirstN(critical_counties(threats), TopN),
         total_counties_analyzed |-> Len(threats)]

----------------------------------------------------------------------------
(* app/main.py: the serving layer *)

\* the score limit excluded
get_critical_threats_strict(threats) ==
    LET critical == SelectSeq(threats,
                        LAMBDA t : t.current_threat_level \in {"extreme", "high"}
                                   /\ t.enhanced_vulnerability # NaN
                                   /\ t.enhanced_vulnerability > 6000)
        keys     == [i \in 1..Len(critical) |-> critical[i].enhanced_vulnerability]
        ord      == SortedIdx(keys, Len(critical))
        sorted   == [i \in 1..Len(critical) |-> critical[ord[i]]]
    IN  [count             |-> Len(sorted),
         critical_counties |-> sorted,
         alert_level       |-> IF Len(sorted) > 0 THEN "HIGH" ELSE "NORMAL"]

\* the body get_critical_threats builds from the threat records it read
get_critical_threats(threats) ==
    LET critical == SelectSeq(threats,
                        LAMBDA t : t.current_threat_level \in {"extreme", "high"}
                                   /\ Ge(t.enhanced_vulnerability, 6000))
        keys     == [i \in 1..Len(critical) |-> critical[i].enhanced_vulnerability]
        ord      == SortedIdx(keys, Len(critical))
        sorted   == [i \in 1..Len(critical) |-> critical[ord[i]]]
    IN  [count             |-> Len(sorted),
         critical_counties |-> sorted,
         alert_level       |-> IF Len(sorted) > 0 THEN "HIGH" ELSE "NORMAL"]

----------------------------------------------------------------------------
(* data/processed *)

COUNTIES_FILE              == "counties.geojson"
COUNTIES_CSV               == "counties.csv"
SUMMARY_FILE               == "summary_stats.json"
SIMPLIFIED_FILE            == "counties_simplified.geojson"
NOAA_COUNTIES_FILE         == "counties_noaa.geojson"
NOAA_CSV                   == "counties_noaa.csv"
ENHANCED_COUNTIES_FILE     == "counties_enhanced.geojson"
ENHANCED_STATS_FILE        == "enhanced_stats.json"
ENHANCED_CSV               == "counties_enhanced.csv"
ACTIVE_STORMS_FILE         == "active_hurricanes.json"
COUNTIES_WITH_THREATS_FILE == "counties_current_threats.json"

FileNames ==
    {COUNTIES_FILE, COUNTIES_CSV, SUMMARY_FILE, SIMPLIFIED_FILE,
     NOAA_COUNTIES_FILE, NOAA_CSV,
     ENHANCED_COUNTIES_FILE, ENHANCED_STATS_FILE, ENHANCED_CSV,
     ACTIVE_STORMS_FILE, COUNTIES_WITH_THREATS_FILE}

\* a file is absent, truncated (opened with 'w', nothing flushed yet: zero
\* bytes) or holds the complete document of one write
Absent      == [st |-> "absent", data |-> <<>>]
Truncated   == [st |-> "truncated", data |-> <<>>]
Complete(d) == [st |-> "complete", data |-> d]

Write(f, d) == [file |-> f, data |-> d]

----------------------------------------------------------------------------
(* data/raw: the inputs a run can find *)

Freq(n, avg, max) == [storm_count |-> n, avg_wind_speed |-> avg, max_wind_speed |-> max]

Home(v, status) == [median_home_value |-> v, rural_status |-> status]

RawFiles(counties, pop, hurricanes, gdp, svi, freq, statista) ==
    [counties   |-> counties,    \* florida_counties.geojson exists
     pop        |-> pop,         \* its POP column, <<>> when it has none
     hurricanes |-> hurricanes,  \* florida_hurricanes.csv exists
     gdp        |-> gdp,         \* county_gdp.csv: County -> GDP_2022, <<>> when missing
     svi        |-> svi,         \* cdc_svi_florida.csv: County -> SVI, <<>> when missing
     freq       |-> freq,        \* county_hurricane_frequency.csv, <<>> when missing
     statista   |-> statista]    \* statista_enriched_data.csv, <<>> when missing

\* every source present and covering every county
AllSources ==
    RawFiles(TRUE, [c \in Counties |-> IF c = "Bay" THEN 100000 ELSE 200000], TRUE,
             [c \in Counties |-> IF c = "Bay" THEN 800 ELSE 400],
             [c \in Counties |-> IF c = "Bay" THEN 3000 ELSE 7000],
             [c \in Counties |-> IF c = "Bay" THEN Freq(10, 60, 120) ELSE Freq(2, 40, 70)],
             [c \in Counties |-> IF c = "Bay" THEN Home(500, "urban") ELSE Home(200, "rural")])

\* no track file and no GDP file: risk proxy and sampled GDP; the frequency
\* and Statista tables cover one county of the layer
NoTracksNoGdp ==
    RawFiles(TRUE, [c \in Counties |-> IF c = "Bay" THEN 100000 ELSE 200000], FALSE,
             <<>>, [c \in Counties |-> IF c = "Bay" THEN 3000 ELSE 7000],
             [c \in {"Bay", "Lee"} |-> IF c = "Bay" THEN Freq(4, 137, 160) ELSE Freq(1, 34, 34)],
             [c \in {"Bay"} |-> Home(500, "exurban")])

\* the base boundary file is missing
NoBoundary ==
    [AllSources EXCEPT !.counties = FALSE, !.pop = <<>>]

\* degraded sources: no GDP key matches a county, SVI out of range (the -999
\* sentinel, a value above 1), equal storm counts, equal home values
Degraded ==
    RawFiles(TRUE, [c \in Counties |-> IF c = "Bay" THEN 100000 ELSE 200000], TRUE,
             [c \in {"Bay County"} |-> 800],
             [c \in Counties |-> IF c = "Bay" THEN -9990000 ELSE 20000],
             [c \in Counties |-> IF c = "Bay" THEN Freq(5, 60, 120) ELSE Freq(5, 40, 70)],
             [c \in Counties |-> IF c = "Bay" THEN Home(300, "urban") ELSE Home(300, "rural")])

\* partial GDP, sampled population and SVI, no enrichment input
PartialSources ==
    RawFiles(TRUE, <<>>, TRUE, [c \in {"Bay"} |-> 800], <<>>, <<>>, <<>>)

RawScenarios == {AllSources, NoTracksNoGdp, NoBoundary, Degraded, PartialSources}

----------------------------------------------------------------------------
(* The scripts *)

Start(name) ==
    /\ pc = "idle"
    /\ runs > 0
    /\ runs' = runs - 1
    /\ script' = name
    /\ before' = files

Abort ==
    /\ pc' = "aborted"
    /\ pending' = <<>>

\* process_data.py main(): load, score, summarise; save_outputs is left to do
ProcessData ==
    /\ Start("base")
    /\ \/ /\ ~raw.counties
          /\ Abort
       \/ /\ raw.counties
          /\ \E hurricane_risk \in calculate_hurricane_risk(raw.hurricanes),
                gdp_rand \in (IF DOMAIN raw.gdp = {} THEN GdpDraw ELSE {<<>>}),
                pop_rand \in (IF DOMAIN raw.pop = {} THEN PopDraw ELSE {<<>>}),
                svi_rand \in (IF DOMAIN raw.svi = {} THEN SviDraw ELSE {<<>>}) :
                LET result_gdf == calculate_vulnerability_scores(
                                      raw.gdp, raw.svi, raw.pop, hurricane_risk,
                                      gdp_rand, pop_rand, svi_rand)
                    stats == generate_summary_stats(result_gdf)
                IN  pending' = << Write(COUNTIES_FILE, result_gdf),
                                  Write(COUNTIES_CSV, result_gdf),
                                  Write(SUMMARY_FILE, stats),
                                  Write(SIMPLIFIED_FILE, result_gdf) >>
          /\ pc' = "saving"
    /\ UNCHANGED <<writers, integ, calc, raw, files, active_storms, county_threats, feed_failed, latest, served>>

\* calculate_real_hurricane_risk.py main(): load, rescore; save_updated_data
\* is left to do
RealHurricaneRisk ==
    /\ Start("noaa")
    /\ \/ /\ \/ DOMAIN raw.freq = {}
             \/ files[COUNTIES_FILE].st # "complete"
          /\ Abort
       \/ /\ DOMAIN raw.freq # {}
          /\ files[COUNTIES_FILE].st = "complete"
          /\ LET risk_df     == noaa_calculate_hurricane_risk(raw.freq)
                 updated_gdf == update_vulnerability_with_noaa_risk(
                                    risk_df, files[COUNTIES_FILE].data)
                 gdf         == DropColumn(updated_gdf, "hurricane_risk_old")
             IN  pending' = << Write(NOAA_COUNTIES_FILE, gdf),
                               Write(COUNTIES_FILE, gdf),
                               Write(NOAA_CSV, gdf),
                               Write(SUMMARY_FILE, noaa_summary_stats(gdf)) >>
          /\ pc' = "saving"
    /\ UNCHANGED <<writers, integ, calc, raw, files, active_storms, county_threats, feed_failed, latest, served>>

\* the enrichment also updating the main counties file, as the NOAA update does
EnrichWithStatista_main ==
    /\ Start("statista")
    /\ \/ /\ \/ DOMAIN raw.statista = {}
             \/ files[COUNTIES_FILE].st # "complete"
          /\ Abort
       \/ /\ DOMAIN raw.statista # {}
          /\ files[COUNTIES_FILE].st = "complete"
          /\ LET enhanced_gdf == calculate_enhanced_vulnerability(
                                     files[COUNTIES_FILE].data, raw.statista)
             IN  pending' = << Write(ENHANCED_COUNTIES_FILE, enhanced_gdf),
                               Write(COUNTIES_FILE, enhanced_gdf),
                               Write(ENHANCED_STATS_FILE,
                                     generate_enhanced_stats(enhanced_gdf)),
                               Write(ENHANCED_CSV, enhanced_gdf) >>
          /\ pc' = "saving"
    /\ UNCHANGED <<writers, integ, calc, raw, files, active_storms, county_threats, feed_failed, latest, served>>

\* enrich_with_statista.py main(): load, enrich; save_enhanced_data is left to do
EnrichWithStatista ==
    /\ Start("statista")
    /\ \/ /\ \/ DOMAIN raw.statista = {}
             \/ files[COUNTIES_FILE].st # "complete"
          /\ Abort
       \/ /\ DOMAIN raw.statista # {}
          /\ files[COUNTIES_FILE].st = "complete"
          /\ LET enhanced_gdf == calculate_enhanced_vulnerability(
                                     files[COUNTIES_FILE].data, raw.statista)
             IN  pending' = << Write(ENHANCED_COUNTIES_FILE, enhanced_gdf),
                               Write(ENHANCED_STATS_FILE,
                                     generate_enhanced_stats(enhanced_gdf)),
                               Write(ENHANCED_CSV, enhanced_gdf) >>
          /\ pc' = "saving"
    /\ UNCHANGED <<writers, integ, calc, raw, files, active_storms, county_threats, feed_failed, latest, served>>

\* what the NHC feed can answer: a failed request, or a list of storms
Storm(name, lat, wind) == [name |-> name, latitude |-> lat, windSpeed |-> wind]

Feed(storms) == [ok |-> TRUE, activeStorms |-> storms]

FeedError == [ok |-> FALSE, activeStorms |-> <<>>]

LiveFeeds ==
    {FeedError, Feed(<<>>),
     Feed(<<Storm("Ian", 50 * KM, 120)>>),
     Feed(<<Storm("Ian", 2000 * KM, 120)>>),
     Feed(<<Storm("Ian", Unparseable, 50)>>),
     Feed(<<Storm("Ian", 2000 * KM, 120), Storm("Nicole", 400 * KM, 60)>>)}

\* the request's exception not caught: a failed fetch ends the script
FetchActiveStorms_uncaught(feeds) ==
    /\ Start("classifier")
    /\ \E response \in feeds :
          /\ feed_failed' = ~response.ok
          /\ active_storms' =
                IF response.ok
                THEN [i \in 1..Len(response.activeStorms) |->
                         storm_info(response.activeStorms[i])]
                ELSE <<>>
          /\ pc' = IF response.ok THEN "fetched" ELSE "aborted"
    /\ county_threats' = <<>>
    /\ UNCHANGED <<writers, integ, calc, raw, files, pending, latest, served>>

\* fetch_active_hurricanes.py main(), first step: fetch_active_storms
FetchActiveStorms(feeds) ==
    /\ Start("classifier")
    /\ \E response \in feeds :
          /\ feed_failed' = ~response.ok
          /\ active_storms' =
                IF response.ok
                THEN [i \in 1..Len(response.activeStorms) |->
                         storm_info(response.activeStorms[i])]
                ELSE <<>>
    /\ pc' = "fetched"
    /\ county_threats' = <<>>
    /\ UNCHANGED <<writers, integ, calc, raw, files, pending, latest, served>>

\* the csv calculate_county_threats reads the scores from
counties_file ==
    IF files[ENHANCED_CSV].st # "absent" THEN ENHANCED_CSV ELSE NOAA_CSV

\* main(), second step: calculate_county_threats
CalculateThreats ==
    /\ pc = "fetched"
    /\ \/ /\ \/ files[counties_file].st # "complete"
             \/ files[COUNTIES_FILE].st # "complete"
          /\ Abort
          /\ UNCHANGED county_threats
       \/ /\ files[counties_file].st = "complete"
          /\ files[COUNTIES_FILE].st = "complete"
          /\ county_threats' = calculate_county_threats(active_storms,
                                                        files[counties_file].data)
          /\ pc' = "calculated"
          /\ UNCHANGED pending
    /\ UNCHANGED <<writers, integ, calc, raw, files, script, active_storms, feed_failed, before,
                   latest, runs, served>>

\* the threat level also written into the scored layer
GenerateSummary_annotate ==
    /\ pc = "calculated"
    /\ pending' = << Write(ACTIVE_STORMS_FILE,
                           threat_summary_stats(active_storms, county_threats)),
                     Write(COUNTIES_WITH_THREATS_FILE, county_threats),
                     Write(COUNTIES_FILE,
                           [c \in Counties |->
                               [has_active_threat |-> active_storms # <<>>]
                               @@ files[COUNTIES_FILE].data[c]]) >>
    /\ pc' = "saving"
    /\ UNCHANGED <<writers, integ, calc, raw, files, script, active_storms, county_threats, feed_failed,
                   before, latest, runs, served>>

\* the new county records appended to those the threat file holds
GenerateSummary_merge ==
    /\ pc = "calculated"
    /\ pending' = << Write(ACTIVE_STORMS_FILE,
                           threat_summary_stats(active_storms, county_threats)),
                     Write(COUNTIES_WITH_THREATS_FILE,
                           IF files[COUNTIES_WITH_THREATS_FILE].st = "complete"
                           THEN files[COUNTIES_WITH_THREATS_FILE].data \o county_threats
                           ELSE county_threats) >>
    /\ pc' = "saving"
    /\ UNCHANGED <<writers, integ, calc, raw, files, script, active_storms, county_threats, feed_failed,
                   before, latest, runs, served>>

\* main(), third step: generate_summary_stats; the two json.dump calls are
\* left to do
GenerateSummary ==
    /\ pc = "calculated"
    /\ pending' = << Write(ACTIVE_STORMS_FILE,
                           threat_summary_stats(active_storms, county_threats)),
                     Write(COUNTIES_WITH_THREATS_FILE, county_threats) >>
    /\ pc' = "saving"
    /\ UNCHANGED <<writers, integ, calc, raw, files, script, active_storms, county_threats, feed_failed,
                   before, latest, runs, served>>

----------------------------------------------------------------------------
(* Writing a file: open(path, 'w') / to_file, then the dump *)

\* the file is created or truncated in place
OpenFile ==
    /\ pc = "saving"
    /\ files' = [files EXCEPT ![Head(pending).file] = Truncated]
    /\ pc' = "writing"
    /\ UNCHANGED <<writers, integ, calc, raw, script, pending, active_storms, county_threats,
                   feed_failed, before, latest, runs, served>>

\* the document is written and the file closed
CloseFile ==
    /\ pc = "writing"
    /\ files' = [files EXCEPT ![Head(pending).file] = Complete(Head(pending).data)]
    /\ pending' = Tail(pending)
    /\ pc' = IF Tail(pending) = <<>> THEN "done" ELSE "saving"
    /\ latest' = IF Tail(pending) = <<>> /\ script # "classifier"
                 THEN script ELSE latest
    /\ UNCHANGED <<writers, integ, calc, raw, script, active_storms, county_threats,
                   feed_failed, before, runs, served>>

\* the open or the write raises (disk full, permission): the script ends
WriteFails ==
    /\ pc \in {"saving", "writing"}
    /\ Abort
    /\ UNCHANGED <<writers, integ, calc, raw, files, script, active_storms, county_threats,
                   feed_failed, before, latest, runs, served>>

\* the script's process ends, with its exit status in pc: its memory is gone
Exit ==
    /\ pc \in {"done", "aborted"}
    /\ pc' = "idle"
    /\ script' = "none"
    /\ active_storms' = <<>>
    /\ county_threats' = <<>>
    /\ feed_failed' = FALSE
    /\ before' = files
    /\ UNCHANGED <<writers, integ, calc, raw, files, pending, latest, runs, served>>

----------------------------------------------------------------------------
(* app/main.py: the endpoints, each one request from file read to response *)

Response(endpoint, status, body) ==
    [endpoint |-> endpoint, status |-> status, body |-> body]

Serve(response) ==
    /\ served' = response
    /\ UNCHANGED <<writers, integ, calc, raw, files, pc, script, pending, active_storms,
                   county_threats, feed_failed, before, latest, runs>>

\* the layer kept from when the running script started, not read again
GetCounties_cached ==
    Serve(IF before[COUNTIES_FILE].st = "absent"
          THEN Response("counties", 404, <<>>)
          ELSE IF before[COUNTIES_FILE].st = "truncated"
          THEN Response("counties", 500, <<>>)
          ELSE Response("counties", 200, before[COUNTIES_FILE].data))

\* GET /api/counties through load_counties_data
GetCounties ==
    Serve(IF files[COUNTIES_FILE].st = "absent"
          THEN Response("counties", 404, <<>>)
          ELSE IF files[COUNTIES_FILE].st = "truncated"
          THEN Response("counties", 500, <<>>)
          ELSE Response("counties", 200, files[COUNTIES_FILE].data))

\* GET /api/realtime/active-storms
GetActiveStorms ==
    Serve(IF files[ACTIVE_STORMS_FILE].st = "absent"
          THEN Response("active-storms", 200,
                        [active_storms_count |-> 0, active_storms |-> <<>>,
                         message |-> "No real-time data available"])
          ELSE IF files[ACTIVE_STORMS_FILE].st = "truncated"
          THEN Response("active-storms", 500, <<>>)
          ELSE Response("active-storms", 200, files[ACTIVE_STORMS_FILE].data))

\* GET /api/realtime/county-threats, no threat_level filter
GetCountyThreats ==
    Serve(IF files[COUNTIES_WITH_THREATS_FILE].st = "absent"
          THEN Response("county-threats", 200,
                        [counties |-> <<>>,
                         message |-> "No threat assessment data available"])
          ELSE IF files[COUNTIES_WITH_THREATS_FILE].st = "truncated"
          THEN Response("county-threats", 500, <<>>)
          ELSE Response("county-threats", 200,
                        [count    |-> Len(files[COUNTIES_WITH_THREATS_FILE].data),
                         counties |-> files[COUNTIES_WITH_THREATS_FILE].data]))

\* GET /api/realtime/critical-threats
GetCriticalThreats ==
    Serve(IF files[COUNTIES_WITH_THREATS_FILE].st = "absent"
          THEN Response("critical-threats", 200,
                        [critical_counties |-> <<>>,
                         message |-> "No threat data available."])
          ELSE IF files[COUNTIES_WITH_THREATS_FILE].st = "truncated"
          THEN Response("critical-threats", 500, <<>>)
          ELSE Response("critical-threats", 200,
                        get_critical_threats(files[COUNTIES_WITH_THREATS_FILE].data)))

----------------------------------------------------------------------------
(* The pipeline and the serving layer over one data directory *)

NoResponse == Response("none", 0, <<>>)

EmptyDir == [f \in FileNames |-> Absent]

Init ==
    /\ raw \in RawScenarios
    /\ files = EmptyDir
    /\ pc = "idle"
    /\ script = "none"
    /\ pending = <<>>
    /\ active_storms = <<>>
    /\ county_threats = <<>>
    /\ feed_failed = FALSE
    /\ before = EmptyDir
    /\ latest = "none"
    /\ runs = MaxRuns
    /\ served = NoResponse
    /\ writers = NoWriters
    /\ integ = NoIntegration
    /\ calc = NoCalc

\* the three scoring scripts, run one at a time, any write of which can fail
Next ==
    \/ ProcessData
    \/ RealHurricaneRisk
    \/ EnrichWithStatista
    \/ OpenFile
    \/ CloseFile
    \/ WriteFails
    \/ Exit

Spec == Init /\ [][Next]_vars

\* the three scoring scripts on any of the sources, every write succeeding
NextScoring ==
    \/ ProcessData
    \/ RealHurricaneRisk
    \/ EnrichWithStatista
    \/ OpenFile
    \/ CloseFile
    \/ Exit

SpecScoring == Init /\ [][NextScoring]_vars

\* the whole pipeline on a complete set of sources, every write succeeding
InitChain ==
    /\ raw = AllSources
    /\ files = EmptyDir
    /\ pc = "idle"
    /\ script = "none"
    /\ pending = <<>>
    /\ active_storms = <<>>
    /\ county_threats = <<>>
    /\ feed_failed = FALSE
    /\ before = EmptyDir
    /\ latest = "none"
    /\ runs = MaxChain
    /\ served = NoResponse
    /\ writers = NoWriters
    /\ integ = NoIntegration
    /\ calc = NoCalc

NextChain ==
    \/ ProcessData
    \/ RealHurricaneRisk
    \/ EnrichWithStatista
    \/ FetchActiveStorms(LiveFeeds)
    \/ CalculateThreats
    \/ GenerateSummary
    \/ OpenFile
    \/ CloseFile
    \/ Exit

SpecChain == InitChain /\ [][NextChain]_vars

\* the pipeline and the serving layer, which answers requests at any time,
\* also between the open and the close of a file
InitServe ==
    /\ raw = AllSources
    /\ files = EmptyDir
    /\ pc = "idle"
    /\ script = "none"
    /\ pending = <<>>
    /\ active_storms = <<>>
    /\ county_threats = <<>>
    /\ feed_failed = FALSE
    /\ before = EmptyDir
    /\ latest = "none"
    /\ runs = MaxServeRuns
    /\ served = NoResponse
    /\ writers = NoWriters
    /\ integ = NoIntegration
    /\ calc = NoCalc

NextServe ==
    \/ ProcessData
    \/ RealHurricaneRisk
    \/ EnrichWithStatista
    \/ FetchActiveStorms(LiveFeeds)
    \/ CalculateThreats
    \/ GenerateSummary
    \/ OpenFile
    \/ CloseFile
    \/ Exit
    \/ GetCounties
    \/ GetActiveStorms
    \/ GetCountyThreats
    \/ GetCriticalThreats

SpecServe == InitServe /\ [][NextServe]_vars

----------------------------------------------------------------------------
(* The classifier alone, on the directory a base and a NOAA run leave, with
   storms at the band limits *)

BaseLayer ==
    calculate_vulnerability_scores(AllSources.gdp, AllSources.svi, AllSources.pop,
        [c \in Counties |-> IF c = "Bay" THEN 9000 ELSE 3000], <<>>, <<>>, <<>>)

NoaaLayer ==
    DropColumn(update_vulnerability_with_noaa_risk(
                   noaa_calculate_hurricane_risk(AllSources.freq), BaseLayer),
               "hurricane_risk_old")

ScoredDir ==
    [f \in FileNames |->
        CASE f \in {COUNTIES_CSV, SIMPLIFIED_FILE} -> Complete(BaseLayer)
          [] f \in {COUNTIES_FILE, NOAA_COUNTIES_FILE, NOAA_CSV} -> Complete(NoaaLayer)
          [] f = SUMMARY_FILE -> Complete(noaa_summary_stats(NoaaLayer))
          [] OTHER -> Absent]

\* latitudes at, just beyond and between the limits of the bands of a county
\* at 0, and one the classifier cannot parse
BandLatitudes ==
    {100 * KM, 100 * KM + 1, 250 * KM, 250 * KM + 1, 500 * KM, 500 * KM + 1,
     1000 * KM, 1000 * KM + 1, 1001 * KM, Unparseable}

\* the i-th storm of a feed has a name of its own
StormName(i) == CASE i = 1 -> "Ian" [] i = 2 -> "Nicole" [] OTHER -> "Idalia"

BandFeeds ==
    {FeedError} \cup
    UNION {{Feed([i \in 1..n |-> Storm(StormName(i), lat[i], 120)]) :
               lat \in [1..n -> BandLatitudes]} : n \in 0..MaxStorms}

InitThreat ==
    /\ raw = AllSources
    /\ files = ScoredDir
    /\ pc = "idle"
    /\ script = "none"
    /\ pending = <<>>
    /\ active_storms = <<>>
    /\ county_threats = <<>>
    /\ feed_failed = FALSE
    /\ before = ScoredDir
    /\ latest = "noaa"
    /\ runs = 1
    /\ served = NoResponse
    /\ writers = NoWriters
    /\ integ = NoIntegration
    /\ calc = NoCalc

NextThreat ==
    \/ FetchActiveStorms(BandFeeds)
    \/ CalculateThreats
    \/ GenerateSummary
    \/ OpenFile
    \/ CloseFile
    \/ Exit

SpecThreat == InitThreat /\ [][NextThreat]_vars

----------------------------------------------------------------------------
(* The critical-county lists: the classifier's summary and the endpoint, on
   the threat records of a layer of up to MaxThreats counties *)

\* one record as calculate_county_threats appends it, for a county whose
\* nearest storm puts it in the band level
ThreatRecord(name, level, score) ==
    [NAME                      |-> name,
     current_threat_level      |-> level,
     nearest_storm_distance_km |-> CASE level = "extreme"  -> 50 * KM
                                     [] level = "high"     -> 200 * KM
                                     [] level = "moderate" -> 400 * KM
                                     [] level = "low"      -> 800 * KM
                                     [] OTHER              -> 1500 * KM,
     nearest_storm_name        |-> "Ian",
     nearest_storm_category    |-> categorize_storm(120),
     has_active_threat         |-> level # "none",
     enhanced_vulnerability    |-> score]

\* the i-th element of s repeated for ever
Cycle(s, i) == s[((i - 1) % Len(s)) + 1]

\* threat levels and scores of the successive counties of a layer
LevelCycles ==
    << <<"high", "extreme">>,
       <<"moderate", "high", "extreme", "low", "none">>,
       <<"moderate">> >>

ScoreCycles ==
    << <<6000, 6700, 7400, 8100, 8800, 9500, 6200>>,
       <<9500, 6000, 5999, NaN>>,
       <<6000>> >>

ThreatLists ==
    {[i \in 1..n |-> ThreatRecord(ToString(i), Cycle(LevelCycles[p], i),
                                  Cycle(ScoreCycles[q], i))] :
        n \in 0..MaxThreats, p \in 1..Len(LevelCycles), q \in 1..Len(ScoreCycles)}

\* the classifier has classified the counties and is about to summarise
InitCritical ==
    /\ raw = AllSources
    /\ files = ScoredDir
    /\ pc = "calculated"
    /\ script = "classifier"
    /\ pending = <<>>
    /\ active_storms = <<storm_info(Storm("Ian", 50 * KM, 120))>>
    /\ county_threats \in ThreatLists
    /\ feed_failed = FALSE
    /\ before = ScoredDir
    /\ latest = "noaa"
    /\ runs = 0
    /\ served = NoResponse
    /\ writers = NoWriters
    /\ integ = NoIntegration
    /\ calc = NoCalc

NextCritical ==
    \/ GenerateSummary
    \/ OpenFile
    \/ CloseFile
    \/ GetActiveStorms
    \/ GetCriticalThreats

SpecCritical == InitCritical /\ [][NextCritical]_vars

----------------------------------------------------------------------------
(* integrate_data.py: keys.  A key is the text of a csv cell, as the sequence
   of its characters *)

Digits == {"0", "1", "2", "3", "4", "5", "6", "7", "8", "9"}

IsDigits(k) == k # <<>> /\ \A i \in 1..Len(k) : k[i] \in Digits

\* the dtype read_csv gives a column with these cells: int64 when every cell
\* is an integer, float64 when the others are empty, object otherwise
ColumnDtype(cells) ==
    IF \A i \in 1..Len(cells) : IsDigits(cells[i]) THEN "int64"
    ELSE IF \A i \in 1..Len(cells) : cells[i] = <<>> \/ IsDigits(cells[i])
    THEN "float64"
    ELSE "object"

RECURSIVE StripZeros(_)
\* the decimal digits of int(k)
StripZeros(k) ==
    IF Len(k) > 1 /\ Head(k) = "0" THEN StripZeros(Tail(k)) ELSE k

\* astype(str) of one cell of a column of that dtype
astype_str(cell, dtype) ==
    IF cell = <<>> THEN <<"n", "a", "n">>
    ELSE IF dtype = "int64" THEN StripZeros(cell)
    ELSE IF dtype = "float64" THEN StripZeros(cell) \o <<".", "0">>
    ELSE cell

\* str.zfill(width): zeros on the left, behind a leading sign
zfill(k, width) ==
    IF Len(k) >= width THEN k
    ELSE LET zeros == [i \in 1..(width - Len(k)) |-> "0"]
         IN  IF k # <<>> /\ Head(k) \in {"+", "-"}
             THEN <<Head(k)>> \o zeros \o Tail(k)
             ELSE zeros \o k

\* the 'FIPS' column made of the column of raw cells: prefix + astype(str).str.zfill(width)
StandardizeFIPS(rows, prefix, width) ==
    LET cells == [i \in 1..Len(rows) |-> rows[i].key]
        dtype == ColumnDtype(cells)
    IN  [i \in 1..Len(rows) |->
            [FIPS |-> prefix \o zfill(astype_str(cells[i], dtype), width)] @@ rows[i]]

----------------------------------------------------------------------------
(* integrate_data.py: the tables it loads *)

FIPS_Alachua == <<"1", "2", "0", "0", "1">>
FIPS_Baker   == <<"1", "2", "0", "0", "3">>
FIPS_Bay     == <<"1", "2", "0", "0", "5">>

\* florida_counties.geojson, the base layer
BaseCounties ==
    << [key |-> FIPS_Alachua, NAME |-> "Alachua"],
       [key |-> FIPS_Baker,   NAME |-> "Baker"],
       [key |-> FIPS_Bay,     NAME |-> "Bay"] >>

GdpRow(key, name, gdp) == [key |-> key, GeoName |-> name, GDP_2023 |-> gdp]

\* florida_gdp_2023.csv, keyed by COUNTY_FIPS or by FIPS: every county; one
\* county; two rows for one county; a non-numeric and a six-digit key; a
\* county that is not in the base layer
GdpTables ==
    { [keycol |-> "COUNTY_FIPS",
       rows |-> << GdpRow(<<"1">>, "Alachua", 5), GdpRow(<<"3">>, "Baker", 30),
                   GdpRow(<<"5">>, "Bay", 2) >>],
      [keycol |-> "FIPS",
       rows |-> << GdpRow(FIPS_Alachua, "Alachua", 5) >>],
      [keycol |-> "COUNTY_FIPS",
       rows |-> << GdpRow(<<"1">>, "Alachua", 5), GdpRow(<<"1">>, "Alachua", 6),
                   GdpRow(<<"3">>, "Baker", 30) >>],
      [keycol |-> "FIPS",
       rows |-> << GdpRow(FIPS_Alachua, "Alachua", 5),
                   GdpRow(<<"1", "2", "A", "0", "3">>, "Baker", 30),
                   GdpRow(<<"1", "2", "0", "0", "5", "5">>, "Bay", 2) >>],
      [keycol |-> "FIPS",
       rows |-> << GdpRow(<<"1", "2", "0", "9", "9">>, "Polk", 40),
                   GdpRow(FIPS_Bay, "Bay", -2) >>] }

SviRow(key, rpl, pop) == [key |-> key, RPL_THEMES |-> rpl, E_TOTPOP |-> pop]

\* florida_svi_2022.csv: every county; two counties; the -999 sentinel; a row
\* without a key; two rows for one county
SviTables ==
    { << SviRow(FIPS_Alachua, 3000, 100), SviRow(FIPS_Baker, 7000, 200),
         SviRow(FIPS_Bay, 5000, 50) >>,
      << SviRow(FIPS_Alachua, 3000, 100), SviRow(FIPS_Bay, 5000, 50) >>,
      << SviRow(FIPS_Alachua, 3000, 100), SviRow(FIPS_Baker, -9990000, 200),
         SviRow(FIPS_Bay, 5000, 50) >>,
      << SviRow(FIPS_Alachua, 3000, 100), SviRow(<<>>, 7000, 200),
         SviRow(FIPS_Bay, 5000, 50) >>,
      << SviRow(FIPS_Alachua, 3000, 100), SviRow(FIPS_Alachua, 9000, 100),
         SviRow(FIPS_Baker, 9000, 200), SviRow(FIPS_Bay, 5000, 50) >> }

NriRow(key, rating) == [key |-> key, HRCN_RISKR |-> rating]

\* fema_nri_florida.csv: every county; one county; two rows for one county
NriTables ==
    { << NriRow(FIPS_Alachua, "Very High"), NriRow(FIPS_Baker, "Relatively Low"),
         NriRow(FIPS_Bay, "Very High") >>,
      << NriRow(FIPS_Alachua, "Relatively High") >>,
      << NriRow(FIPS_Alachua, "Very Low"), NriRow(FIPS_Baker, "Not Applicable"),
         NriRow(FIPS_Baker, "Insufficient Data"), NriRow(FIPS_Bay, "Very High") >> }

----------------------------------------------------------------------------
(* integrate_data.py: merging and scoring *)

\* df[[cols]] of one row
Columns(row, cols) == [k \in cols |-> row[k]]

\* a missing text cell
NullText == "nan"

RECURSIVE LeftMerge(_, _, _)
\* left.merge(right, on='FIPS', how='left'): for each left row in order, one
\* row per right row with its key, in right order; one row with nulls when
\* there is none
LeftMerge(left, right, nulls) ==
    IF left = <<>> THEN <<>>
    ELSE LET row     == Head(left)
             matches == SelectSeq(right, LAMBDA r : r.FIPS = row.FIPS)
             joined  == IF matches = <<>> THEN << row @@ nulls >>
                        ELSE [j \in 1..Len(matches) |-> row @@ matches[j]]
         IN  joined \o LeftMerge(Tail(left), right, nulls)

\* risk_map.get(rating, 0.5)
risk_map(rating) ==
    CASE rating = "Very Low"            -> 1000
      [] rating = "Relatively Low"      -> 3000
      [] rating = "Relatively Moderate" -> 5000
      [] rating = "Relatively High"     -> 7000
      [] rating = "Very High"           -> 9000
      [] rating = "Not Applicable"      -> 0
      [] OTHER                          -> 5000

max_gdp_per_capita == 150000

\* x is a number of 1/(10 * One): round(x, 4), a tie to the even neighbour
Round4(x) ==
    IF x = NaN THEN NaN
    ELSE LET q == x \div 10
             r == x % 10
         IN  IF r < 5 THEN q
             ELSE IF r > 5 THEN q + 1
             ELSE IF q % 2 = 0 THEN q ELSE q + 1

\* calculate_vulnerability_score(row): row.get returns the cell when the
\* column exists, also when the cell is null
calculate_vulnerability_score(row) ==
    LET svi_score       == IF "RPL_THEMES" \in DOMAIN row THEN row.RPL_THEMES ELSE 5000
        hurricane_score == risk_map(IF "HRCN_RISKR" \in DOMAIN row THEN row.HRCN_RISKR
                                    ELSE "Relatively Moderate")
        gdp_per_capita  == IF "GDP_PER_CAPITA" \in DOMAIN row THEN row.GDP_PER_CAPITA
                           ELSE 50000
        share           == (gdp_per_capita * One) \div max_gdp_per_capita
        economic_score  == One - (IF share < One THEN share ELSE One)
    IN  IF svi_score = NaN THEN NaN
        ELSE Round4(svi_score * 4 + hurricane_score * 4 + economic_score * 2)

calculate_risk_category(score) ==
    IF Ge(score, 8000) THEN "Critical"
    ELSE IF Ge(score, 6000) THEN "High"
    ELSE IF Ge(score, 4000) THEN "Moderate"
    ELSE IF Ge(score, 2000) THEN "Low"
    ELSE "Very Low"

\* (GDP_2023 * 1000000 / E_TOTPOP).fillna(50000), 50000 without E_TOTPOP
GDP_PER_CAPITA(row) ==
    IF "E_TOTPOP" \notin DOMAIN row THEN 50000
    ELSE IF row.GDP_2023 = NaN \/ row.E_TOTPOP = NaN THEN 50000
    ELSE (row.GDP_2023 * 1000000) \div row.E_TOTPOP

\* Series.rank(ascending=False, method='min') of the i-th score
RankMin(scores, i) ==
    1 + Cardinality({j \in 1..Len(scores) : scores[j] > scores[i]})

----------------------------------------------------------------------------
(* integrate_data.py: integrate_datasets, step by step *)

PipelineVars ==
    <<raw, files, pc, script, pending, active_storms, county_threats,
      feed_failed, before, latest, runs, served, writers>>

\* the files are read and their keys standardized
LoadDatasets ==
    /\ integ.pc = "start"
    /\ integ' =
          [integ EXCEPT
             !.pc = "loaded",
             !.counties =
                 LET rows == StandardizeFIPS(integ.counties, <<>>, 5)
                 IN  [i \in 1..Len(rows) |-> Columns(rows[i], {"FIPS", "NAME"})],
             !.gdp =
                 [integ.gdp EXCEPT !.rows =
                     IF integ.gdp.keycol = "COUNTY_FIPS"
                     THEN StandardizeFIPS(integ.gdp.rows, <<"1", "2">>, 3)
                     ELSE StandardizeFIPS(integ.gdp.rows, <<>>, 5)],
             !.svi = StandardizeFIPS(integ.svi, <<>>, 5),
             !.nri = StandardizeFIPS(integ.nri, <<>>, 5)]
    /\ UNCHANGED <<calc, PipelineVars>>

\* the three left merges onto the base layer
MergeDatasets ==
    /\ integ.pc = "loaded"
    /\ LET gdp == [i \in 1..Len(integ.gdp.rows) |->
                      Columns(integ.gdp.rows[i], {"FIPS", "GeoName", "GDP_2023"})]
           svi == [i \in 1..Len(integ.svi) |->
                      Columns(integ.svi[i], {"FIPS", "RPL_THEMES", "E_TOTPOP"})]
           nri == [i \in 1..Len(integ.nri) |->
                      Columns(integ.nri[i], {"FIPS", "HRCN_RISKR"})]
           with_gdp == LeftMerge(integ.counties, gdp,
                                 [GeoName |-> NullText, GDP_2023 |-> NaN])
           with_svi == LeftMerge(with_gdp, svi,
                                 [RPL_THEMES |-> NaN, E_TOTPOP |-> NaN])
           with_nri == LeftMerge(with_svi, nri, [HRCN_RISKR |-> NullText])
       IN  integ' = [integ EXCEPT !.pc = "merged", !.vulnerability_map = with_nri]
    /\ UNCHANGED <<calc, PipelineVars>>

\* GDP per capita, score and category of every row
CalculateMetrics ==
    /\ integ.pc = "merged"
    /\ LET m  == integ.vulnerability_map
           m1 == [i \in 1..Len(m) |-> [GDP_PER_CAPITA |-> GDP_PER_CAPITA(m[i])] @@ m[i]]
           m2 == [i \in 1..Len(m) |->
                     [VULNERABILITY_SCORE |-> calculate_vulnerability_score(m1[i])]
                     @@ m1[i]]
           m3 == [i \in 1..Len(m) |->
                     [RISK_CATEGORY |-> calculate_risk_category(m2[i].VULNERABILITY_SCORE)]
                     @@ m2[i]]
       IN  integ' = [integ EXCEPT !.pc = "scored", !.vulnerability_map = m3]
    /\ UNCHANGED <<calc, PipelineVars>>

\* rank(ascending=False, method='min').astype(int): the rank of a null score
\* is null, and astype(int) raises on it
RankCounties ==
    /\ integ.pc = "scored"
    /\ LET m      == integ.vulnerability_map
           scores == [i \in 1..Len(m) |-> m[i].VULNERABILITY_SCORE]
       IN  IF \E i \in 1..Len(m) : scores[i] = NaN
           THEN integ' = [integ EXCEPT !.pc = "aborted"]
           ELSE integ' = [integ EXCEPT
                            !.pc = "ranked",
                            !.vulnerability_map =
                                [i \in 1..Len(m) |->
                                    [VULNERABILITY_RANK |-> RankMin(scores, i)] @@ m[i]]]
    /\ UNCHANGED <<calc, PipelineVars>>

\* the report of the ten most vulnerable counties reads VULNERABILITY_RANK from
\* a frame cut down to five other columns: KeyError on its first row, before
\* any output file is written
ReportTop ==
    /\ integ.pc = "ranked"
    /\ integ' = [integ EXCEPT
                   !.pc = IF integ.vulnerability_map # <<>> THEN "aborted" ELSE "saving"]
    /\ UNCHANGED <<calc, PipelineVars>>

InitIntegrate ==
    /\ raw = AllSources
    /\ files = EmptyDir
    /\ pc = "idle"
    /\ script = "none"
    /\ pending = <<>>
    /\ active_storms = <<>>
    /\ county_threats = <<>>
    /\ feed_failed = FALSE
    /\ before = EmptyDir
    /\ latest = "none"
    /\ runs = 0
    /\ served = NoResponse
    /\ writers = NoWriters
    /\ calc = NoCalc
    /\ \E gdp \in GdpTables, svi \in SviTables, nri \in NriTables :
          integ = [pc |-> "start", counties |-> BaseCounties, gdp |-> gdp,
                   svi |-> svi, nri |-> nri, vulnerability_map |-> <<>>]

NextIntegrate ==
    \/ LoadDatasets
    \/ MergeDatasets
    \/ CalculateMetrics
    \/ RankCounties
    \/ ReportTop

SpecIntegrate == InitIntegrate /\ [][NextIntegrate]_vars

----------------------------------------------------------------------------
(* scripts/quick_setup.py and scripts/download_noaa_hurricanes.py: the sample
   county polygons and the storm frequency per county. Coordinates are in
   units of 0.0001 degree *)

Degree == 10000

\* three of the FLORIDA_COUNTIES centres, <<latitude, longitude>>
FLORIDA_COUNTIES ==
    "St. Lucie" :> <<273467, -803883>> @@
    "Martin"    :> <<271003, -803883>> @@
    "Polk"      :> <<280002, -817325>>

\* the square of side size centred on the county
create_county_polygon(center_lat, center_lon, size) ==
    LET half_size == size \div 2
    IN  [south |-> center_lat - half_size, north |-> center_lat + half_size,
         west  |-> center_lon - half_size, east  |-> center_lon + half_size]

\* florida_counties.geojson as create_florida_counties_geojson writes it
florida_counties ==
    [c \in DOMAIN FLORIDA_COUNTIES |->
        create_county_polygon(FLORIDA_COUNTIES[c][1], FLORIDA_COUNTIES[c][2],
                              Degree \div 2)]

\* predicate='within': the point is in the interior of the polygon
within(point, polygon) ==
    /\ polygon.south < point.LAT /\ point.LAT < polygon.north
    /\ polygon.west < point.LON /\ point.LON < polygon.east

\* gpd.sjoin(points, counties, how='inner', predicate='within'), kept being
\* the index labels of the points: one row per point and polygon containing it
sjoin(tracks, kept, counties_gdf) ==
    {<<i, c>> \in kept \X DOMAIN counties_gdf : within(tracks[i], counties_gdf[c])}

RECURSIVE SumOver(_, _)
\* the sum of f over the finite set S
SumOver(f, S) ==
    IF S = {} THEN 0
    ELSE LET x == CHOOSE y \in S : TRUE
         IN  f[x] + SumOver(f, S \ {x})

\* groupby(county)['SID'].count(): the points of the county
create_hurricane_frequency_map_points(tracks) ==
    LET kept    == {i \in 1..Len(tracks) :
                      tracks[i].LAT # Unparseable /\ tracks[i].LON # Unparseable}
        joined  == sjoin(tracks, kept, florida_counties)
        rows(c) == {i \in kept : <<i, c>> \in joined}
        wind    == [i \in 1..Len(tracks) |-> tracks[i].USA_WIND]
    IN  [joined    |-> joined,
         frequency |->
            [c \in {r[2] : r \in joined} |->
                [storm_count    |-> Cardinality(rows(c)),
                 avg_wind_speed |-> SumOver(wind, rows(c)) \div Cardinality(rows(c)),
                 max_wind_speed |-> CHOOSE m \in {wind[i] : i \in rows(c)} :
                                       \A i \in rows(c) : wind[i] <= m]]]

\* tracks: the rows of florida_hurricanes_noaa.csv; the result is the spatial
\* join and the table written to county_hurricane_frequency.csv
create_hurricane_frequency_map(tracks) ==
    LET kept    == {i \in 1..Len(tracks) :
                      tracks[i].LAT # Unparseable /\ tracks[i].LON # Unparseable}
        joined  == sjoin(tracks, kept, florida_counties)
        rows(c) == {i \in kept : <<i, c>> \in joined}
        wind    == [i \in 1..Len(tracks) |-> tracks[i].USA_WIND]
    IN  [joined    |-> joined,
         frequency |->
            [c \in {r[2] : r \in joined} |->
                [storm_count    |-> Cardinality({tracks[i].SID : i \in rows(c)}),
                 avg_wind_speed |-> SumOver(wind, rows(c)) \div Cardinality(rows(c)),
                 max_wind_speed |-> CHOOSE m \in {wind[i] : i \in rows(c)} :
                                       \A i \in rows(c) : wind[i] <= m]]]

MaxPoints == 2

TrackPoint(sid, lat, lon, wind) == [SID |-> sid, LAT |-> lat, LON |-> lon, USA_WIND |-> wind]

\* positions in St. Lucie only, in both St. Lucie and Martin, in Polk, on the
\* western edge of Polk, offshore, and one that does not parse
TrackPositions ==
    {<<275000, -803900, 50>>, <<272200, -803900, 100>>, <<280000, -817300, 70>>,
     <<280000, -819825, 40>>, <<250000, -790000, 120>>, <<Unparseable, -803900, 60>>}

TrackPoints ==
    {TrackPoint(sid, p[1], p[2], p[3]) : sid \in {"AL092022", "AL172022"},
                                         p \in TrackPositions}

TrackFiles == UNION {[1..n -> TrackPoints] : n \in 0..MaxPoints}

----------------------------------------------------------------------------
(* The scoring routines applied to inputs of their own *)

MaxLen == 3

\* the values of the vectors normalize_score is applied to
NormValues == {NaN, 0, 3, 10}

NormVectors == UNION {[1..n -> NormValues] : n \in 1..MaxLen}

ScoreSamples == {NaN, 0, 1999, 2000, 3999, 4000, 5999, 6000, 7999, 8000, One}

\* average and maximum wind of a county: below and on the lower bound, inside
\* the range, on and above the upper bounds
WindSamples == {<<30, 34>>, <<60, 120>>, <<137, 160>>, <<150, 170>>}

\* storm counts and winds of one or more counties, equal or not
FreqTables ==
    UNION {{[c \in D |-> Freq(n[c], w[c][1], w[c][2])] :
               n \in [D -> {2, 10}], w \in [D -> WindSamples]} :
           D \in (SUBSET Counties) \ {{}}}

\* enrichment tables of none, some or all counties; a county the table lacks
\* gets the default home value 300
StatistaTables ==
    UNION {{[c \in D |-> Home(v[c], "rural")] : v \in [D -> {200, 300}]} :
           D \in SUBSET Counties}

\* a base layer to enrich
SampleLayer ==
    calculate_vulnerability_scores(AllSources.gdp, AllSources.svi, AllSources.pop,
                                   [c \in Counties |-> 6000], <<>>, <<>>, <<>>)

Ratings ==
    {"Very Low", "Relatively Low", "Relatively Moderate", "Relatively High",
     "Very High", "Not Applicable", "Insufficient Data", NullText}

\* calc records the one call a behaviour makes
Call(fn, args, out) == [fn |-> fn, args |-> args, out |-> out]

Normalize ==
    /\ calc = NoCalc
    /\ \E values \in NormVectors, inverse \in BOOLEAN :
           calc' = Call("normalize_score", <<values, inverse>>, normalize_score(values, inverse))
    /\ UNCHANGED <<integ, PipelineVars>>

Categorize ==
    /\ calc = NoCalc
    /\ \E version \in {"base", "noaa", "statista"}, score \in ScoreSamples :
           calc' = Call("categorize", <<version, score>>,
                CASE version = "base"     -> categorize_risk(score)
                  [] version = "noaa"     -> noaa_categorize_risk(score)
                  [] version = "statista" -> categorize_enhanced_risk(score))
    /\ UNCHANGED <<integ, PipelineVars>>

\* the weighted sum of a version, before its clamp
ApplyFormula ==
    /\ calc = NoCalc
    /\ \E version \in {"base", "noaa", "statista"} :
           \E x \in [1..(IF version = "statista" THEN 5 ELSE 3) -> {0, One}] :
               calc' = Call("formula", <<version, x>>,
                    CASE version = "base"     -> BaseFormula(x[1], x[2], x[3])
                      [] version = "noaa"     -> NoaaFormula(x[1], x[2], x[3])
                      [] version = "statista" ->
                             EnhancedFormula(x[1], x[2], x[3], x[4], x[5]))
    /\ UNCHANGED <<integ, PipelineVars>>

CalcBaseScores ==
    /\ calc = NoCalc
    /\ \E sources \in {r \in RawScenarios : r.counties} :
           \E hurricane_risk \in calculate_hurricane_risk(sources.hurricanes),
              gdp_rand \in (IF DOMAIN sources.gdp = {} THEN GdpDraw ELSE {<<>>}),
              pop_rand \in (IF DOMAIN sources.pop = {} THEN PopDraw ELSE {<<>>}),
              svi_rand \in (IF DOMAIN sources.svi = {} THEN SviDraw ELSE {<<>>}) :
               calc' = Call("calculate_vulnerability_scores",
                    [gdp |-> sources.gdp, pop |-> sources.pop],
                    calculate_vulnerability_scores(
                        sources.gdp, sources.svi, sources.pop, hurricane_risk,
                        gdp_rand, pop_rand, svi_rand))
    /\ UNCHANGED <<integ, PipelineVars>>

CalcIntegrateScore ==
    /\ calc = NoCalc
    /\ \E rpl \in {NaN, 0, 3000, 5000, One}, rating \in Ratings,
          gpc \in {0, 30000, 50000, 150000, 200000} :
           LET row == [RPL_THEMES |-> rpl, HRCN_RISKR |-> rating, GDP_PER_CAPITA |-> gpc]
           IN  calc' = Call("calculate_vulnerability_score", row,
                    calculate_vulnerability_score(row))
    /\ UNCHANGED <<integ, PipelineVars>>

CalcNoaaRisk ==
    /\ calc = NoCalc
    /\ \E frequency_df \in FreqTables :
           calc' = Call("calculate_hurricane_risk", frequency_df,
                noaa_calculate_hurricane_risk(frequency_df))
    /\ UNCHANGED <<integ, PipelineVars>>

CalcEnhanced ==
    /\ calc = NoCalc
    /\ \E statista_df \in StatistaTables :
           calc' = Call("calculate_enhanced_vulnerability", statista_df,
                calculate_enhanced_vulnerability(SampleLayer, statista_df))
    /\ UNCHANGED <<integ, PipelineVars>>

CalcFrequencyMap ==
    /\ calc = NoCalc
    /\ \E tracks \in TrackFiles :
           calc' = Call("create_hurricane_frequency_map", tracks,
                        create_hurricane_frequency_map(tracks))
    /\ UNCHANGED <<integ, PipelineVars>>

InitCalc ==
    /\ raw = AllSources
    /\ files = EmptyDir
    /\ pc = "idle"
    /\ script = "none"
    /\ pending = <<>>
    /\ active_storms = <<>>
    /\ county_threats = <<>>
    /\ feed_failed = FALSE
    /\ before = EmptyDir
    /\ latest = "none"
    /\ runs = 0
    /\ served = NoResponse
    /\ writers = NoWriters
    /\ integ = NoIntegration
    /\ calc = NoCalc

NextCalc ==
    \/ Normalize
    \/ Categorize
    \/ ApplyFormula
    \/ CalcBaseScores
    \/ CalcIntegrateScore
    \/ CalcNoaaRisk
    \/ CalcEnhanced
    \/ CalcFrequencyMap

SpecCalc == InitCalc /\ [][NextCalc]_vars

----------------------------------------------------------------------------
(* Classifier processes side by side: POST /api/realtime/refresh starts
   fetch_active_hurricanes.py as a subprocess of its own for every request,
   and the script can be run from the shell at the same time; nothing
   serializes them *)

RefreshProcs == {"refresh_1", "refresh_2"}

RefreshFeeds == {Feed(<<>>), Feed(<<Storm("Ian", 50 * KM, 120)>>)}

\* the file process p has open for writing, "none" when it has none
OpenBy(p) == IF writers[p].pc = "writing" THEN Head(writers[p].pending).file ELSE "none"

\* process p starts: main() up to the first open, which reads the scored
\* layers no classifier writes
StartClassifier(p) ==
    /\ writers[p].pc = "idle"
    /\ files[counties_file].st = "complete"
    /\ files[COUNTIES_FILE].st = "complete"
    /\ \E response \in RefreshFeeds :
          LET storms  == [i \in 1..Len(response.activeStorms) |->
                             storm_info(response.activeStorms[i])]
              threats == calculate_county_threats(storms, files[counties_file].data)
          IN  writers' = [writers EXCEPT ![p] =
                             [pc      |-> "saving",
                              pending |-> << Write(ACTIVE_STORMS_FILE,
                                                   threat_summary_stats(storms, threats)),
                                             Write(COUNTIES_WITH_THREATS_FILE, threats) >>,
                              raced   |-> FALSE]]
    /\ UNCHANGED <<raw, files, pc, script, pending, active_storms, county_threats,
                   feed_failed, before, latest, runs, served, integ, calc>>

\* open(path, 'w') in process p: the file is truncated, whoever else has it open
ProcOpen(p) ==
    /\ writers[p].pc = "saving"
    /\ LET f      == Head(writers[p].pending).file
           others == {q \in Procs \ {p} : OpenBy(q) = f}
       IN  /\ files' = [files EXCEPT ![f] = Truncated]
           /\ writers' = [q \in Procs |->
                            IF q = p
                            THEN [writers[p] EXCEPT !.pc = "writing",
                                                    !.raced = others # {}]
                            ELSE IF q \in others
                            THEN [writers[q] EXCEPT !.raced = TRUE]
                            ELSE writers[q]]
    /\ UNCHANGED <<raw, pc, script, pending, active_storms, county_threats,
                   feed_failed, before, latest, runs, served, integ, calc>>

\* json.dump and close in process p. Alone on the file it leaves its document;
\* when another process had the file open in the meantime both wrote from
\* offset 0 into the same file, and the bytes left are p's document or a mix
\* of the two that is no document
ProcClose(p) ==
    /\ writers[p].pc = "writing"
    /\ LET f == Head(writers[p].pending).file
           d == Head(writers[p].pending).data
       IN  \E content \in (IF writers[p].raced THEN {Complete(d), Truncated}
                           ELSE {Complete(d)}) :
              files' = [files EXCEPT ![f] = content]
    /\ writers' = [writers EXCEPT ![p] =
                      [pc      |-> IF Tail(writers[p].pending) = <<>>
                                   THEN "exited" ELSE "saving",
                       pending |-> Tail(writers[p].pending),
                       raced   |-> FALSE]]
    /\ UNCHANGED <<raw, pc, script, pending, active_storms, county_threats,
                   feed_failed, before, latest, runs, served, integ, calc>>

\* refresh_realtime_data after subprocess.run returned: the summary file is
\* read and the response built; a file that does not parse is a 500
RefreshRespond(p) ==
    /\ p \in RefreshProcs
    /\ writers[p].pc = "exited"
    /\ served' =
          IF files[ACTIVE_STORMS_FILE].st = "complete"
          THEN Response("refresh", 200,
                        [status  |-> "success",
                         summary |->
                            [active_storms |->
                                 files[ACTIVE_STORMS_FILE].data.active_storms_count,
                             counties_under_threat |->
                                 files[ACTIVE_STORMS_FILE].data.counties_under_threat]])
          ELSE IF files[ACTIVE_STORMS_FILE].st = "absent"
          THEN Response("refresh", 200,
                        [status  |-> "success",
                         message |-> "Script executed but no data file generated"])
          ELSE Response("refresh", 500, <<>>)
    /\ writers' = [writers EXCEPT ![p].pc = "responded"]
    /\ UNCHANGED <<raw, files, pc, script, pending, active_storms, county_threats,
                   feed_failed, before, latest, runs, integ, calc>>

InitRefresh ==
    /\ raw = AllSources
    /\ files = ScoredDir
    /\ pc = "idle"
    /\ script = "none"
    /\ pending = <<>>
    /\ active_storms = <<>>
    /\ county_threats = <<>>
    /\ feed_failed = FALSE
    /\ before = ScoredDir
    /\ latest = "noaa"
    /\ runs = 0
    /\ served = NoResponse
    /\ writers = NoWriters
    /\ integ = NoIntegration
    /\ calc = NoCalc

NextRefresh ==
    \/ \E p \in Procs : StartClassifier(p)
    \/ \E p \in Procs : ProcOpen(p)
    \/ \E p \in Procs : ProcClose(p)
    \/ \E p \in Procs : RefreshRespond(p)

SpecRefresh == InitRefresh /\ [][NextRefresh]_vars

----------------------------------------------------------------------------
(* Claims *)

\* the distances from a county to the storms whose position parses
StormDistances(name, storms) ==
    {IF Centroid[name] >= storms[k].latitude
     THEN Centroid[name] - storms[k].latitude
     ELSE storms[k].latitude - Centroid[name] :
        k \in {j \in 1..Len(storms) : storms[j].latitude # Unparseable}}

\* the smallest of them, Inf when there is none
MinStormDistance(name, storms) ==
    LET D == StormDistances(name, storms)
    IN  IF D = {} THEN Inf ELSE CHOOSE d \in D : \A e \in D : d <= e

\* the band of a distance d in units of 0.01 km
Band(d) ==
    CASE d <= 10000                 -> "extreme"
      [] 10000 < d /\ d <= 25000    -> "high"
      [] 25000 < d /\ d <= 50000    -> "moderate"
      [] 50000 < d /\ d <= 100000   -> "low"
      [] d > 100000                 -> "none"

\* C1: with at least one active storm, every county's threat level is the
\* band of its minimum storm distance d: extreme for d <= 100 km, high for
\* 100 < d <= 250, moderate for 250 < d <= 500, low for 500 < d <= 1000 and
\* none beyond 1000 km
C1_ThreatBanding ==
    \A i \in 1..Len(county_threats) :
        active_storms # <<>> =>
            county_threats[i].current_threat_level =
                Band(MinStormDistance(county_threats[i].NAME, active_storms))

\* a run classified one county at exactly 100 km as extreme and the other,
\* 200 km away, as high
C1_Witness ==
    /\ pc = "done"
    /\ \E i, j \in 1..Len(county_threats) :
          /\ MinStormDistance(county_threats[i].NAME, active_storms) = 100 * KM
          /\ county_threats[i].current_threat_level = "extreme"
          /\ MinStormDistance(county_threats[j].NAME, active_storms) = 200 * KM
          /\ county_threats[j].current_threat_level = "high"

\* the files that hold a scored layer, and the fields that hold a composite score
LayerFiles ==
    {COUNTIES_FILE, COUNTIES_CSV, SIMPLIFIED_FILE, NOAA_COUNTIES_FILE, NOAA_CSV,
     ENHANCED_COUNTIES_FILE, ENHANCED_CSV}

ScoreFields == {"vulnerability_score", "enhanced_vulnerability"}

\* C2: every composite score persisted in a scored layer, of whatever formula
\* version, is a defined number in [0, 1], also when a raw sub-metric is out of
\* range or missing
C2_ScoreInUnitInterval ==
    \A f \in LayerFiles :
        files[f].st = "complete" =>
            \A c \in Counties :
                \A k \in ScoreFields \cap DOMAIN files[f].data[c] :
                    /\ files[f].data[c][k] # NaN
                    /\ 0 <= files[f].data[c][k]
                    /\ files[f].data[c][k] <= One

\* a critical record: threat level extreme or high and score >= 0.6
IsCritical(t) ==
    /\ t.current_threat_level \in {"extreme", "high"}
    /\ t.enhanced_vulnerability # NaN
    /\ t.enhanced_vulnerability >= 6000

\* L holds critical records of T only, each once, by score descending
CriticalSorted(L, T) ==
    /\ \A j \in 1..Len(L) :
          IsCritical(L[j]) /\ \E i \in 1..Len(T) : T[i] = L[j]
    /\ \A j, k \in 1..Len(L) :
          j < k => /\ L[j] # L[k]
                   /\ L[j].enhanced_vulnerability >= L[k].enhanced_vulnerability

\* L holds exactly the critical records of T, by score descending
ExactCriticalList(L, T) ==
    /\ CriticalSorted(L, T)
    /\ \A i \in 1..Len(T) : IsCritical(T[i]) => \E j \in 1..Len(L) : L[j] = T[i]

\* L holds the TopN critical records of T with the highest scores (all of
\* them when there are no more than TopN), by score descending
TopCriticalList(L, T) ==
    LET n == Cardinality({i \in 1..Len(T) : IsCritical(T[i])})
    IN  /\ CriticalSorted(L, T)
        /\ Len(L) = IF n <= TopN THEN n ELSE TopN
        /\ \A i \in 1..Len(T) :
              (IsCritical(T[i]) /\ \A j \in 1..Len(L) : L[j] # T[i]) =>
                  \A j \in 1..Len(L) :
                      T[i].enhanced_vulnerability <= L[j].enhanced_vulnerability

\* the endpoint answered from the threat file
CriticalServed ==
    /\ served.endpoint = "critical-threats"
    /\ "count" \in DOMAIN served.body

\* C3: the body of /api/realtime/critical-threats lists exactly the records
\* of the threat file whose level is extreme or high and whose score is
\* >= 0.6, by score descending; the critical_counties of the summary in
\* active_hurricanes.json lists the ten of them with the highest scores
C3_CriticalLists ==
    /\ CriticalServed =>
          /\ ExactCriticalList(served.body.critical_counties,
                               files[COUNTIES_WITH_THREATS_FILE].data)
          /\ served.body.count = Len(served.body.critical_counties)
    /\ files[ACTIVE_STORMS_FILE].st = "complete" =>
          TopCriticalList(files[ACTIVE_STORMS_FILE].data.critical_counties,
                          county_threats)

\* twelve critical counties, one of them high with score exactly 0.60: the
\* endpoint lists all of them, the summary ten
C3_Witness ==
    /\ CriticalServed
    /\ served.body.count > TopN
    /\ \E j \in 1..served.body.count :
          /\ served.body.critical_counties[j].current_threat_level = "high"
          /\ served.body.critical_counties[j].enhanced_vulnerability = 6000
    /\ files[ACTIVE_STORMS_FILE].st = "complete"
    /\ Len(files[ACTIVE_STORMS_FILE].data.critical_counties) = TopN

\* C3 as stated: both critical lists of the real-time layer, the endpoint's
\* and the summary's, hold exactly the critical records
C3_BothListsExact ==
    /\ CriticalServed =>
          ExactCriticalList(served.body.critical_counties,
                            files[COUNTIES_WITH_THREATS_FILE].data)
    /\ files[ACTIVE_STORMS_FILE].st = "complete" =>
          ExactCriticalList(files[ACTIVE_STORMS_FILE].data.critical_counties,
                            county_threats)

\* the classifier's run has had its inputs and come past calculate_county_threats
Classified ==
    /\ script = "classifier"
    /\ pc \in {"calculated", "saving", "writing", "done"}

\* C4: a failed fetch leaves zero active storms and never ends the run (a
\* classifier run aborts only for want of a scored layer to read); with zero
\* active storms every county's record has threat level none, no nearest
\* storm and a null distance, and the finished run has written both
\* real-time artifacts
C4_FetchFailureProceeds ==
    /\ feed_failed => active_storms = <<>>
    /\ (script = "classifier" /\ pc = "aborted") =>
          \/ files[counties_file].st # "complete"
          \/ files[COUNTIES_FILE].st # "complete"
    /\ (Classified /\ active_storms = <<>>) =>
          /\ Len(county_threats) = Len(CountyOrder)
          /\ \A i \in 1..Len(county_threats) :
                /\ county_threats[i].current_threat_level = "none"
                /\ county_threats[i].nearest_storm_name = NoStorm
                /\ county_threats[i].nearest_storm_category = NoStorm
                /\ county_threats[i].nearest_storm_distance_km = NoDistance
                /\ ~county_threats[i].has_active_threat
    /\ (Classified /\ pc = "done" /\ active_storms = <<>>) =>
          /\ files[ACTIVE_STORMS_FILE].st = "complete"
          /\ files[ACTIVE_STORMS_FILE].data.active_storms_count = 0
          /\ files[ACTIVE_STORMS_FILE].data.threat_distribution["none"]
                = Len(CountyOrder)
          /\ files[COUNTIES_WITH_THREATS_FILE] = Complete(county_threats)

\* a run whose fetch failed has finished and written both artifacts
C4_Witness ==
    /\ script = "classifier"
    /\ pc = "done"
    /\ feed_failed
    /\ files[ACTIVE_STORMS_FILE].st = "complete"
    /\ files[COUNTIES_WITH_THREATS_FILE].st = "complete"
    /\ \A i \in 1..Len(files[COUNTIES_WITH_THREATS_FILE].data) :
          files[COUNTIES_WITH_THREATS_FILE].data[i].current_threat_level = "none"
    /\ Len(files[COUNTIES_WITH_THREATS_FILE].data) = Len(CountyOrder)

\* C5: the serving layer never reads a partially written artifact: a request
\* is answered from the complete prior or the complete new content of the
\* file (or finds no file), never from a file a save has opened and not yet
\* finished
C5_ReaderSeesWholeArtifact ==
    served.status # 500

\* C6: a scoring run that aborts, for a missing input or for a failure in the
\* middle of its save, leaves every artifact as it was when the run started
C6_AbortLeavesArtifacts ==
    pc = "aborted" => files = before

\* the score and category columns of the layer in a file
ScoresOf(file) ==
    [c \in Counties |-> <<file.data[c].vulnerability_score, file.data[c].risk_category>>]

\* C7: the Statista enrichment leaves counties.geojson and summary_stats.json,
\* and so every persisted vulnerability_score and risk_category, as they were
\* before the run; the NOAA update replaces both files: counties.geojson
\* becomes the layer of counties_noaa.geojson, rescored with the NOAA
\* hurricane risk, and summary_stats.json the NOAA summary
C7_VersionFrame ==
    /\ script = "statista" =>
          /\ files[COUNTIES_FILE] = before[COUNTIES_FILE]
          /\ files[SUMMARY_FILE] = before[SUMMARY_FILE]
    /\ (script = "noaa" /\ pc = "done") =>
          /\ files[COUNTIES_FILE] = files[NOAA_COUNTIES_FILE]
          /\ files[SUMMARY_FILE].data.data_source = "NOAA IBTrACS"
          /\ \A c \in Counties :
                LET new == files[COUNTIES_FILE].data[c]
                    old == before[COUNTIES_FILE].data[c]
                IN  /\ new.vulnerability_score =
                          Clip01(BaseFormula(new.hurricane_risk,
                                             old.social_vulnerability,
                                             old.economic_vulnerability))
                    /\ new.risk_category = noaa_categorize_risk(new.vulnerability_score)

\* an enrichment has run to its end on a scored counties.geojson
C7_Witness ==
    /\ script = "statista"
    /\ pc = "done"
    /\ before[COUNTIES_FILE].st = "complete"
    /\ files[ENHANCED_COUNTIES_FILE].st = "complete"
    /\ files[ENHANCED_CSV].st = "complete"

\* C7 as stated: after a NOAA update or a Statista enrichment, the
\* vulnerability_score and risk_category in counties.geojson, and
\* summary_stats.json, are what they were before the run
C7_NoVersionAltersAnother ==
    (script \in {"noaa", "statista"} /\ pc = "done") =>
        /\ ScoresOf(files[COUNTIES_FILE]) = ScoresOf(before[COUNTIES_FILE])
        /\ files[SUMMARY_FILE] = before[SUMMARY_FILE]

\* the columns the NOAA update adds to the layer
NoaaColumns == {"storm_count", "avg_wind_speed", "max_wind_speed"}

\* C8: the layer a NOAA update persists holds no prior-version value: no
\* hurricane_risk_old, its columns are those of the layer it read plus the
\* three NOAA columns, and the columns it does not rescore are unchanged;
\* the run leaves counties.csv and counties_simplified.geojson as they were
C8_PriorValueDropped ==
    /\ script = "noaa" =>
          /\ files[COUNTIES_CSV] = before[COUNTIES_CSV]
          /\ files[SIMPLIFIED_FILE] = before[SIMPLIFIED_FILE]
    /\ (script = "noaa" /\ pc = "done") =>
          /\ files[NOAA_COUNTIES_FILE] = files[COUNTIES_FILE]
          /\ files[NOAA_CSV] = files[COUNTIES_FILE]
          /\ \A c \in Counties :
                LET new == files[COUNTIES_FILE].data[c]
                    old == before[COUNTIES_FILE].data[c]
                IN  /\ "hurricane_risk_old" \notin DOMAIN new
                    /\ DOMAIN new = DOMAIN old \cup NoaaColumns
                    /\ \A k \in DOMAIN old \ (NoaaColumns \cup
                              {"hurricane_risk", "vulnerability_score", "risk_category"}) :
                          new[k] = old[k]

\* a NOAA update has run to its end and changed a county's hurricane_risk
C8_Witness ==
    /\ script = "noaa"
    /\ pc = "done"
    /\ files[COUNTIES_CSV].st = "complete"
    /\ \E c \in Counties :
          files[COUNTIES_FILE].data[c].hurricane_risk
              # before[COUNTIES_FILE].data[c].hurricane_risk

\* C8 as stated: after a NOAA update, some numeric field of the persisted
\* layer other than hurricane_risk holds every county's prior hurricane_risk,
\* and some field other than vulnerability_score its prior vulnerability_score
C8_PriorValueKept ==
    (script = "noaa" /\ pc = "done") =>
        LET new == files[COUNTIES_FILE].data
            old == before[COUNTIES_FILE].data
            columns == DOMAIN new[CountyOrder[1]] \ {"risk_category"}
        IN  /\ \E k \in columns \ {"hurricane_risk"} :
                  \A c \in Counties : new[c][k] = old[c].hurricane_risk
            /\ \E k \in columns \ {"vulnerability_score"} :
                  \A c \in Counties : new[c][k] = old[c].vulnerability_score

\* the composite score of county c in the layer of the version that was
\* computed last: the Statista version's is enhanced_vulnerability in
\* counties_enhanced.csv, the base and the NOAA versions' is
\* vulnerability_score in counties.geojson
CanonicalScore(c) ==
    IF latest = "statista"
    THEN files[ENHANCED_CSV].data[c].enhanced_vulnerability
    ELSE files[COUNTIES_FILE].data[c].vulnerability_score

\* C9: after any sequence of scoring runs followed by a classifier run, each
\* record of the threat file carries its county's score in the layer of the
\* version computed last
C9_ThreatCarriesCanonicalScore ==
    (script = "classifier" /\ pc = "done") =>
        \A i \in 1..Len(files[COUNTIES_WITH_THREATS_FILE].data) :
            LET t == files[COUNTIES_WITH_THREATS_FILE].data[i]
            IN  t.enhanced_vulnerability = CanonicalScore(t.NAME)

\* C10: two base runs on the same input files, all of them present, persist
\* the same sub-metrics, scores and categories
C10_BaseRunReproducible ==
    (/\ raw = AllSources
     /\ script = "base"
     /\ before[COUNTIES_CSV].st = "complete"
     /\ files[COUNTIES_CSV].st = "complete") =>
        files[COUNTIES_CSV] = before[COUNTIES_CSV]

\* the county keys of a frame, in row order
KeysOf(frame) == [i \in 1..Len(frame) |-> frame[i].FIPS]

Merged == integ.pc \in {"merged", "scored", "ranked", "aborted"}

\* C11: after the three left merges the combined layer has exactly the base
\* layer's rows, in the base layer's order, whatever the auxiliary tables hold
C11_MergeKeepsBaseRows ==
    Merged => KeysOf(integ.vulnerability_map) = KeysOf(integ.counties)

Scored == integ.pc \in {"scored", "ranked"}

\* the score of a row whose null social-vulnerability percentile is replaced
\* by the documented default 0.5
FallbackScore(row) ==
    calculate_vulnerability_score(
        [RPL_THEMES |-> IF row.RPL_THEMES = NaN THEN One \div 2 ELSE row.RPL_THEMES]
        @@ row)

\* C12: the score of every row of the combined layer, matched or not, is a
\* defined number computed with the documented defaults in place of the nulls
\* the joins left
C12_FallbackScore ==
    Scored =>
        \A i \in 1..Len(integ.vulnerability_map) :
            LET row == integ.vulnerability_map[i]
            IN  /\ row.VULNERABILITY_SCORE # NaN
                /\ row.VULNERABILITY_SCORE = FallbackScore(row)

\* a canonical county identifier: exactly five digits
IsCanonical(k) == Len(k) = 5 /\ IsDigits(k)

\* the keys a table's rows carry once standardized
Standardized(rows) == {rows[i].FIPS : i \in 1..Len(rows)}

AuxKeys ==
    Standardized(integ.gdp.rows) \cup Standardized(integ.svi) \cup Standardized(integ.nri)

Loaded == integ.pc \in {"loaded", "merged", "scored", "ranked", "aborted"}

\* C13: every standardized key is a canonical identifier of exactly five
\* digits (or null, which no key of the model is): a well-formed raw key
\* becomes its five digits, and nothing else is left in the key column
C13_CanonicalOrNull ==
    Loaded => \A k \in AuxKeys : IsCanonical(k)

RECURSIVE Dot(_, _)
Dot(w, x) == IF w = <<>> THEN 0 ELSE Head(w) * Head(x) + Dot(Tail(w), Tail(x))

\* the sum of the x[i] weighted by w[i] hundredths; null when a term is null
WeightedSum(w, x) ==
    IF \E i \in 1..Len(x) : x[i] = NaN THEN NaN ELSE Dot(w, x) \div 100

\* 1 - (v - min) / (max - min) over the counties, 0.5 everywhere when max = min
InverseMinMax(values) ==
    LET lo == SeriesMin(values)
        hi == SeriesMax(values)
    IN  [c \in DOMAIN values |->
           IF lo = hi THEN One \div 2
           ELSE One - ((values[c] - lo) * One) \div (hi - lo)]

\* 1 - min(GDP per capita / 150,000, 1)
CappedShare(gdp_per_capita) ==
    LET share == (gdp_per_capita * One) \div 150000
    IN  One - (IF share < One THEN share ELSE One)

BaseCall == calc.fn = "calculate_vulnerability_scores"

IntegrateCall ==
    calc.fn = "calculate_vulnerability_score" /\ calc.args.RPL_THEMES # NaN

\* C14: calculate_vulnerability_scores of process_data.py computes
\* 0.40 hurricane + 0.30 social + 0.30 economic, clamped to [0,1], with economic
\* the inverse min-max of GDP per capita over the counties;
\* calculate_vulnerability_score of integrate_data.py computes
\* 0.4 social + 0.4 hurricane + 0.2 economic, rounded to four decimals, with
\* economic 1 - min(GDP per capita / 150,000, 1)
C14_BaseScoreRoutines ==
    /\ BaseCall =>
          /\ \A c \in Counties :
                calc.out[c].vulnerability_score =
                    Clip01(WeightedSum(<<40, 30, 30>>,
                                       <<calc.out[c].hurricane_risk,
                                         calc.out[c].social_vulnerability,
                                         calc.out[c].economic_vulnerability>>))
          /\ (DOMAIN calc.args.gdp = Counties /\ DOMAIN calc.args.pop = Counties) =>
                LET per_capita == [c \in Counties |->
                                     (calc.args.gdp[c] * 1000000) \div calc.args.pop[c]]
                IN  \A c \in Counties :
                       calc.out[c].economic_vulnerability = InverseMinMax(per_capita)[c]
    /\ IntegrateCall =>
          calc.out = (4 * calc.args.RPL_THEMES
                      + 4 * risk_map(calc.args.HRCN_RISKR)
                      + 2 * CappedShare(calc.args.GDP_PER_CAPITA) + 5) \div 10

C14_Witness ==
    /\ IntegrateCall
    /\ calc.args.RPL_THEMES = 3000
    /\ calc.args.HRCN_RISKR = "Very High"
    /\ calc.args.GDP_PER_CAPITA = 50000
    /\ calc.out = 6133

\* C14 as stated: the routine of integrate_data.py also weighs hurricane 0.40,
\* social 0.30 and economic 0.30
C14_OneBaseFormula ==
    IntegrateCall =>
        calc.out = WeightedSum(<<40, 30, 30>>,
                               <<risk_map(calc.args.HRCN_RISKR),
                                 calc.args.RPL_THEMES,
                                 CappedShare(calc.args.GDP_PER_CAPITA)>>)

FormulaCall == calc.fn = "formula"

\* the weights the claim lists for a version, in hundredths
DeclaredWeights(version) ==
    CASE version = "base"     -> <<40, 30, 30>>
      [] version = "noaa"     -> <<40, 30, 30>>
      [] version = "statista" -> <<25, 20, 20, 20, 15>>

\* C15: each version's weighted sum gives every component its declared weight,
\* and gives 1 when every component is 1: the weights sum to exactly 1
C15_WeightsSumToOne ==
    FormulaCall =>
        LET version == calc.args[1]
            x       == calc.args[2]
            w       == DeclaredWeights(version)
        IN  /\ calc.out = WeightedSum(w, x)
            /\ (\A i \in 1..Len(x) : x[i] = One) => calc.out = One

C15_Witness ==
    /\ FormulaCall
    /\ calc.args = <<"statista", [k \in 1..5 |-> One]>>
    /\ calc.out = One

CategorizeCall == calc.fn = "categorize" /\ calc.args[2] # NaN

\* the category of the claim's threshold table
ThresholdCategory(s) ==
    CASE s >= 8000              -> "Critical"
      [] s >= 6000 /\ s < 8000  -> "High"
      [] s >= 4000 /\ s < 6000  -> "Moderate"
      [] s >= 2000 /\ s < 4000  -> "Low"
      [] s < 2000               -> "Very Low"

\* C16: the categorizer of every version returns, for every score, the category
\* of the one threshold table, so the three versions agree on every score; on
\* a null score they agree too, on "Very Low"
C16_SameThresholds ==
    /\ CategorizeCall => calc.out = ThresholdCategory(calc.args[2])
    /\ (calc.fn = "categorize" /\ calc.args[2] = NaN) => calc.out = "Very Low"

C16_Witness ==
    /\ calc.fn = "categorize"
    /\ calc.args = <<"statista", 6000>>
    /\ calc.out = "High"

Ranked == integ.pc = "ranked"

\* the rows of the ranked layer with a strictly higher score than row i
HigherThan(i) ==
    {j \in 1..Len(integ.vulnerability_map) :
        integ.vulnerability_map[j].VULNERABILITY_SCORE >
            integ.vulnerability_map[i].VULNERABILITY_SCORE}

\* C17: the rank of every county of the ranked layer is 1 plus the number of
\* counties with a strictly higher score
C17_RankCountsHigherCounties ==
    Ranked =>
        \A i \in 1..Len(integ.vulnerability_map) :
            integ.vulnerability_map[i].VULNERABILITY_RANK =
                1 + Cardinality({integ.vulnerability_map[j].FIPS : j \in HigherThan(i)})

\* normalize_score was applied to a vector of defined numbers
NormalizeCall ==
    /\ calc.fn = "normalize_score"
    /\ \A i \in 1..Len(calc.args[1]) : calc.args[1][i] # NaN

Smallest(v) == CHOOSE m \in {v[i] : i \in 1..Len(v)} : \A i \in 1..Len(v) : m <= v[i]

Largest(v) == CHOOSE m \in {v[i] : i \in 1..Len(v)} : \A i \in 1..Len(v) : m >= v[i]

\* C18: on a vector with distinct min and max every output is in [0,1]; without
\* the inverse flag the min maps to 0 and the max to 1, with it each output is
\* 1 minus the output without it, so the min maps to 1 and the max to 0
C18_MinMaxNormalization ==
    (NormalizeCall /\ Smallest(calc.args[1]) # Largest(calc.args[1])) =>
        LET v       == calc.args[1]
            inverse == calc.args[2]
            direct  == [i \in 1..Len(v) |->
                          ((v[i] - Smallest(v)) * One) \div (Largest(v) - Smallest(v))]
        IN  \A i \in 1..Len(v) :
               /\ calc.out[i] >= 0
               /\ calc.out[i] <= One
               /\ calc.out[i] = IF inverse THEN One - direct[i] ELSE direct[i]
               /\ v[i] = Smallest(v) => calc.out[i] = IF inverse THEN One ELSE 0
               /\ v[i] = Largest(v) => calc.out[i] = IF inverse THEN 0 ELSE One

C18_Witness ==
    /\ NormalizeCall
    /\ calc.args = <<(<<3, 0, 10>>), TRUE>>
    /\ calc.out = <<7000, One, 0>>

\* C19: on a vector whose values are all the same, a single value included,
\* every output is 0.5 whatever the inverse flag
C19_ConstantInputIsHalf ==
    (NormalizeCall /\ Smallest(calc.args[1]) = Largest(calc.args[1])) =>
        \A i \in 1..Len(calc.args[1]) : calc.out[i] = One \div 2

C19_Witness ==
    /\ NormalizeCall
    /\ calc.args = <<(<<3, 3, 3>>), TRUE>>
    /\ calc.out = <<5000, 5000, 5000>>

NoaaRiskCall == calc.fn = "calculate_hurricane_risk"

EnhancedCall == calc.fn = "calculate_enhanced_vulnerability"

\* every county of the frequency table has the same storm count
SameStormCount ==
    \A c, d \in DOMAIN calc.args : calc.args[c].storm_count = calc.args[d].storm_count

\* every county of the enriched layer has the same median home value
SameHomeValue ==
    \A c, d \in Counties : calc.out[c].median_home_value = calc.out[d].median_home_value

InUnitInterval(x) == x # NaN /\ x >= 0 /\ x <= One

\* C20: when every county has the same storm count, the NOAA hurricane risk is
\* a defined number in [0,1] built on a frequency component of 0.5; when every
\* county has the same median home value, the property exposure is 0.5 and the
\* enhanced score is a defined number in [0,1]
C20_ConstantComponentIsHalf ==
    /\ (NoaaRiskCall /\ SameStormCount) =>
          \A c \in DOMAIN calc.args :
             /\ InUnitInterval(calc.out[c].hurricane_risk_noaa)
             /\ calc.out[c].hurricane_risk_noaa =
                   WeightedSum(<<50, 30, 20>>,
                               <<One \div 2,
                                 Clip01(Ratio(calc.args[c].avg_wind_speed - 34, 137 - 34)),
                                 Clip01(Ratio(calc.args[c].max_wind_speed - 34, 160 - 34))>>)
    /\ (EnhancedCall /\ SameHomeValue) =>
          \A c \in Counties :
             /\ calc.out[c].property_exposure = One \div 2
             /\ InUnitInterval(calc.out[c].enhanced_vulnerability)

\* a wind component of the claim: 0 at or below lo, 1 at or above hi, the share
\* of the range in between
WindComponent(wind, lo, hi) ==
    IF wind <= lo THEN 0
    ELSE IF wind >= hi THEN One
    ELSE ((wind - lo) * One) \div (hi - lo)

\* the frequency component: the storm count's share of the range of the run
FrequencyComponent(table, c) ==
    LET counts == {table[d].storm_count : d \in DOMAIN table}
        lo     == CHOOSE m \in counts : \A n \in counts : m <= n
        hi     == CHOOSE m \in counts : \A n \in counts : m >= n
    IN  ((table[c].storm_count - lo) * One) \div (hi - lo)

\* C21: the NOAA hurricane risk of every county of a run with differing storm
\* counts is 0.50 frequency + 0.30 average-wind component + 0.20 max-wind
\* component in [0,1], the two wind components being functions of the county's
\* own winds and the bounds 34..137 kt and 34..160 kt, whatever the other
\* counties of the run are
C21_IntensityFromOwnWinds ==
    (NoaaRiskCall /\ ~SameStormCount) =>
        \A c \in DOMAIN calc.args :
            LET f == FrequencyComponent(calc.args, c)
                a == WindComponent(calc.args[c].avg_wind_speed, 34, 137)
                m == WindComponent(calc.args[c].max_wind_speed, 34, 160)
            IN  /\ calc.out[c].hurricane_risk_noaa =
                      (50 * f) \div 100 + (30 * a) \div 100 + (20 * m) \div 100
                /\ InUnitInterval(calc.out[c].hurricane_risk_noaa)

C21_Witness ==
    /\ NoaaRiskCall
    /\ calc.args = [c \in Counties |->
                       IF c = "Bay" THEN Freq(10, 150, 170) ELSE Freq(2, 30, 34)]
    /\ calc.out["Bay"].hurricane_risk_noaa = One
    /\ calc.out["Polk"].hurricane_risk_noaa = 0

\* the county records exist: the classifier has computed them
ThreatsComputed == county_threats # <<>> /\ active_storms # <<>>

\* the first storm of the list, in list order, at distance d of the county
FirstAt(name, storms, d) ==
    CHOOSE k \in 1..Len(storms) :
        /\ storms[k].latitude # Unparseable
        /\ StormDistances(name, <<storms[k]>>) = {d}
        /\ \A j \in 1..(k - 1) :
              storms[j].latitude = Unparseable \/ StormDistances(name, <<storms[j]>>) # {d}

\* C22: with a non-empty list of active storms, the distance recorded for a
\* county is the minimum of its distances to the storms with a usable position,
\* rounded to 0.1 km, and the recorded nearest storm is the first storm of the
\* list at that minimum; when no storm has a usable position the record has
\* neither a distance nor a nearest storm
C22_NearestStorm ==
    ThreatsComputed =>
        \A i \in 1..Len(county_threats) :
            LET t == county_threats[i]
                d == MinStormDistance(t.NAME, active_storms)
            IN  IF d = Inf
                THEN /\ t.nearest_storm_distance_km = NoDistance
                     /\ t.nearest_storm_name = NoStorm
                ELSE /\ t.nearest_storm_distance_km % 10 = 0
                     /\ t.nearest_storm_distance_km - d <= 5
                     /\ d - t.nearest_storm_distance_km <= 5
                     /\ t.nearest_storm_name =
                           active_storms[FirstAt(t.NAME, active_storms, d)].name

\* two storms at 100.01 km of the county at 0: the first is recorded, at 100.0 km
C22_Witness ==
    /\ pc = "done"
    /\ Len(active_storms) = 2
    /\ active_storms[1].latitude = 100 * KM + 1
    /\ active_storms[2].latitude = 100 * KM + 1
    /\ \E i \in 1..Len(county_threats) :
          /\ Centroid[county_threats[i].NAME] = 0
          /\ county_threats[i].nearest_storm_name = active_storms[1].name
          /\ county_threats[i].nearest_storm_name # active_storms[2].name
          /\ county_threats[i].nearest_storm_distance_km = 100 * KM

\* C22 as stated: the recorded distance is the minimum itself and the recorded
\* storm attains it, for every non-empty list
C22_ExactMinimum ==
    ThreatsComputed =>
        \A i \in 1..Len(county_threats) :
            LET t == county_threats[i]
            IN  /\ t.nearest_storm_distance_km = MinStormDistance(t.NAME, active_storms)
                /\ \E k \in 1..Len(active_storms) :
                      t.nearest_storm_name = active_storms[k].name

\* a classifier run has written both its files
ClassifierDone == script = "classifier" /\ pc = "done"

\* C23: after a completed classifier run the two real-time files hold the
\* summary and the county records of that run and nothing else
C23_RunReplacesRealtimeFiles ==
    ClassifierDone =>
        /\ files[ACTIVE_STORMS_FILE] =
              Complete(threat_summary_stats(active_storms, county_threats))
        /\ files[COUNTIES_WITH_THREATS_FILE] = Complete(county_threats)

\* a run without storms replaced the files of an earlier run that had some
C23_Witness ==
    /\ ClassifierDone
    /\ active_storms = <<>>
    /\ before[ACTIVE_STORMS_FILE].st = "complete"
    /\ before[ACTIVE_STORMS_FILE].data.active_storms # <<>>
    /\ files[ACTIVE_STORMS_FILE].data.active_storms = <<>>
    /\ \E i \in 1..Len(before[COUNTIES_WITH_THREATS_FILE].data) :
          before[COUNTIES_WITH_THREATS_FILE].data[i].has_active_threat
    /\ \A i \in 1..Len(files[COUNTIES_WITH_THREATS_FILE].data) :
          ~files[COUNTIES_WITH_THREATS_FILE].data[i].has_active_threat

\* the files of the scored layers and their summaries
ScoredFiles == FileNames \ {ACTIVE_STORMS_FILE, COUNTIES_WITH_THREATS_FILE}

\* C24: at every step of a classifier run, and after it, each file of the
\* scored layers is what it was when the run started
C24_ClassifierLeavesScores ==
    script = "classifier" => \A f \in ScoredFiles : files[f] = before[f]

\* a classifier run wrote its two files next to the scored layers
C24_Witness ==
    /\ ClassifierDone
    /\ files[COUNTIES_FILE].st = "complete"
    /\ files[NOAA_CSV].st = "complete"
    /\ files[COUNTIES_WITH_THREATS_FILE] # before[COUNTIES_WITH_THREATS_FILE]
    /\ files[ACTIVE_STORMS_FILE] # before[ACTIVE_STORMS_FILE]

\* C25: no real-time file is open for writing in two processes at once
C25_SingleWriter ==
    \A p, q \in Procs :
        (p # q /\ OpenBy(p) # "none") => OpenBy(p) # OpenBy(q)

\* the response r to a request on endpoint e, built from file f as it is now:
\* the documented result when f is absent, made of f's content when f is whole
FreshFrom(r, f, absent_ok, whole_ok) ==
    /\ files[f].st = "absent" => absent_ok
    /\ files[f].st = "complete" => (r.status = 200 /\ whole_ok)

EmptyWithMessage(r, list) ==
    r.status = 200 /\ r.body[list] = <<>> /\ "message" \in DOMAIN r.body

FrequencyCall == calc.fn = "create_hurricane_frequency_map"

\* the counties a track point of the call is attributed to
AttributedTo(i) == {c \in DOMAIN florida_counties : <<i, c>> \in calc.out.joined}

\* the track points of the call attributed to a county
PointsOf(c) == {i \in 1..Len(calc.args) : <<i, c>> \in calc.out.joined}

\* C27: the point-in-polygon attribution gives every storm-track point to at
\* most one county, so that no point contributes to the aggregates of two
\* counties
C27_AtMostOneCounty ==
    FrequencyCall =>
        \A i \in 1..Len(calc.args) : Cardinality(AttributedTo(i)) <= 1

\* C28: a county's storm_count is the number of distinct storm identifiers
\* among the track points attributed to it, not the number of those points
C28_StormCountIsDistinctStorms ==
    FrequencyCall =>
        /\ DOMAIN calc.out.frequency =
              {c \in DOMAIN florida_counties : PointsOf(c) # {}}
        /\ \A c \in DOMAIN calc.out.frequency :
              calc.out.frequency[c].storm_count =
                 Cardinality({calc.args[i].SID : i \in PointsOf(c)})

\* one storm with two track points in a county, counted once
C28_Witness ==
    /\ FrequencyCall
    /\ \E c \in DOMAIN calc.out.frequency :
          /\ Cardinality(PointsOf(c)) = 2
          /\ calc.out.frequency[c].storm_count = 1

\* the storms of the run whose position the classifier cannot convert
UnusableStorms == {k \in 1..Len(active_storms) : active_storms[k].latitude = Unparseable}

\* a record as the classifier writes it when there is no active storm
QuietRecord(t) ==
    /\ t.current_threat_level = "none"
    /\ t.nearest_storm_distance_km = NoDistance
    /\ t.nearest_storm_name = NoStorm
    /\ t.nearest_storm_category = NoStorm
    /\ ~t.has_active_threat

\* C29: a storm whose position does not convert is never recorded as a county's
\* nearest storm, and when no storm of the run has a usable position every
\* county's record has level none, no distance and no nearest storm, as in a
\* run with no active storm
C29_UnusableStormIgnored ==
    county_threats # <<>> =>
        /\ \A i \in 1..Len(county_threats) : \A k \in UnusableStorms :
              county_threats[i].nearest_storm_name # active_storms[k].name
        /\ UnusableStorms = 1..Len(active_storms) =>
              /\ \A i \in 1..Len(county_threats) : QuietRecord(county_threats[i])
              /\ files[counties_file].st = "complete" =>
                    county_threats =
                       calculate_county_threats(<<>>, files[counties_file].data)

\* a finished run whose two storms both have an unusable position
C29_Witness ==
    /\ pc = "done"
    /\ Len(active_storms) = 2
    /\ UnusableStorms = {1, 2}
    /\ county_threats # <<>>
    /\ \A i \in 1..Len(county_threats) : QuietRecord(county_threats[i])

\* the summary and the records a classifier run has written
SummaryWritten ==
    /\ files[ACTIVE_STORMS_FILE].st = "complete"
    /\ files[COUNTIES_WITH_THREATS_FILE].st = "complete"

\* C30: in every real-time summary the five counts of threat_distribution sum
\* to total_counties_analyzed and counties_under_threat is that total less the
\* count at level none; in every record has_active_threat is true exactly when
\* the threat level is not none
C30_SummaryCountsAgree ==
    SummaryWritten =>
        LET s == files[ACTIVE_STORMS_FILE].data
            t == files[COUNTIES_WITH_THREATS_FILE].data
            d == s.threat_distribution
        IN  /\ d["extreme"] + d["high"] + d["moderate"] + d["low"] + d["none"]
                  = s.total_counties_analyzed
            /\ s.counties_under_threat = s.total_counties_analyzed - d["none"]
            /\ \A i \in 1..Len(t) :
                  t[i].has_active_threat <=> t[i].current_threat_level # "none"

\* a summary with a county at level low and a county at level none
C30_Witness ==
    /\ SummaryWritten
    /\ files[ACTIVE_STORMS_FILE].data.threat_distribution["low"] > 0
    /\ files[ACTIVE_STORMS_FILE].data.threat_distribution["none"] > 0
    /\ files[ACTIVE_STORMS_FILE].data.counties_under_threat > 0

====
